---- MODULE Spec2Model ----
(***************************************************************************)
(* A model of the date shifter: the EDF header shifter                     *)
(* (modify_edf_dates.py), the annotation sidecar shifter                   *)
(* (update_xml_createtime.py), the de-identifier (update_xml.py) and the   *)
(* batch orchestrator (batch_process_edf.py).                              *)
(*                                                                         *)
(* A byte or a character is a string of length one ("0", ".", " "); a      *)
(* byte that is not ASCII is the token "#FF".  A buffer or a text is a     *)
(* sequence of them; Python index i is TLA+ index i + 1.                   *)
(***************************************************************************)
EXTENDS Integers, Sequences, FiniteSets, TLC

VARIABLES
    stage,   \* which program is running
    pc,      \* the position of that program
    fs,      \* the file system: path -> content, for the files that exist
    dirs,    \* the directories that exist
    last,    \* the last per-file call: its arguments, what it read and returned
    ncalls,  \* per-file calls made so far
    run      \* the state of a whole run (tables, pending files, records, report)

vars == <<stage, pc, fs, dirs, last, ncalls, run>>

(***************************************************************************)
(* Bounds of the model.                                                    *)
(***************************************************************************)
MaxCalls == 1

(***************************************************************************)
(* Sequences.                                                              *)
(***************************************************************************)
\* Python s[a:b] for 0 <= a <= b
Slice(s, a, b) == SubSeq(s, a + 1, IF b <= Len(s) THEN b ELSE Len(s))

\* Python s[a:b] = new on a bytearray / list
SliceAssign(s, a, b, new) == SubSeq(s, 1, a) \o new \o SubSeq(s, b + 1, Len(s))

Repeat(c, n) == [i \in 1..n |-> c]

\* str.ljust(n): pad with spaces on the right, never cut
Ljust(s, n) == s \o Repeat(" ", n - Len(s))

Whitespace == {" ", "\t", "\n", "\r"}

RECURSIVE LStrip(_)
LStrip(s) == IF s # <<>> /\ Head(s) \in Whitespace THEN LStrip(Tail(s)) ELSE s

RECURSIVE RStrip(_)
RStrip(s) ==
    IF s # <<>> /\ s[Len(s)] \in Whitespace
    THEN RStrip(SubSeq(s, 1, Len(s) - 1)) ELSE s

\* str.strip()
Strip(s) == RStrip(LStrip(s))

\* str.split(sep) for a one-character separator
RECURSIVE SplitAcc(_, _, _)
SplitAcc(s, sep, cur) ==
    IF s = <<>> THEN <<cur>>
    ELSE IF Head(s) = sep THEN <<cur>> \o SplitAcc(Tail(s), sep, <<>>)
    ELSE SplitAcc(Tail(s), sep, Append(cur, Head(s)))

Split(s, sep) == SplitAcc(s, sep, <<>>)

\* whether needle occurs in hay ('needle' in hay)
Contains(hay, needle) ==
    \E i \in 1..(Len(hay) - Len(needle) + 1) :
        SubSeq(hay, i, i + Len(needle) - 1) = needle

\* bytes.decode('ascii', errors='ignore'): the bytes that are not ASCII are dropped
IsAscii(b) == b # "#FF"

DecodeAsciiIgnore(bs) == SelectSeq(bs, IsAscii)

(***************************************************************************)
(* Numbers as text.                                                        *)
(***************************************************************************)
Digits == <<"0", "1", "2", "3", "4", "5", "6", "7", "8", "9">>

IsDigit(c) == \E i \in 1..10 : Digits[i] = c

DigitVal(c) == (CHOOSE i \in 1..10 : Digits[i] = c) - 1

RECURSIVE DigitsVal(_, _)
DigitsVal(s, acc) ==
    IF s = <<>> THEN acc ELSE DigitsVal(Tail(s), 10 * acc + DigitVal(Head(s)))

\* int(text): surrounding whitespace and one sign are accepted, then digits only
ParseInt(text) ==
    LET Signed(t) == t # <<>> /\ Head(t) \in {"+", "-"}
        Number(neg, body) ==
            IF body # <<>> /\ \A i \in 1..Len(body) : IsDigit(body[i])
            THEN [ok |-> TRUE,
                  v |-> IF neg THEN 0 - DigitsVal(body, 0) ELSE DigitsVal(body, 0)]
            ELSE [ok |-> FALSE, v |-> 0]
        Stripped(t) ==
            IF Signed(t) THEN Number(Head(t) = "-", Tail(t)) ELSE Number(FALSE, t)
    IN  Stripped(Strip(text))

RECURSIVE NatText(_)
NatText(n) ==
    IF n < 10 THEN <<Digits[n + 1]>> ELSE NatText(n \div 10) \o <<Digits[(n % 10) + 1]>>

\* f"{n:0Wd}" for n >= 0: zero-padded to at least w characters
RECURSIVE ZeroPad(_, _)
ZeroPad(t, w) == IF Len(t) >= w THEN t ELSE ZeroPad(<<"0">> \o t, w)

Fmt0(n, w) == ZeroPad(NatText(n), w)

(***************************************************************************)
(* datetime: the proleptic Gregorian calendar of Python's date, as the     *)
(* code uses it through datetime(...), date + timedelta and strftime.      *)
(***************************************************************************)
MinYear == 1
MaxYear == 9999
MaxOrdinal == 3652059
MaxDeltaDays == 999999999

IsLeap(y) == y % 4 = 0 /\ (y % 100 # 0 \/ y % 400 = 0)

DaysInMonth(y, m) ==
    IF m = 2 THEN (IF IsLeap(y) THEN 29 ELSE 28)
    ELSE IF m \in {4, 6, 9, 11} THEN 30 ELSE 31

DaysBeforeYear(y) ==
    LET p == y - 1 IN p * 365 + p \div 4 - p \div 100 + p \div 400

RECURSIVE DaysBeforeMonth(_, _)
DaysBeforeMonth(y, m) ==
    IF m <= 1 THEN 0 ELSE DaysBeforeMonth(y, m - 1) + DaysInMonth(y, m - 1)

\* datetime(y, m, d) accepts exactly these
ValidDate(y, m, d) ==
    /\ y >= MinYear /\ y <= MaxYear
    /\ m >= 1 /\ m <= 12
    /\ d >= 1 /\ d <= DaysInMonth(y, m)

ValidTime(h, mi, s) ==
    /\ h >= 0 /\ h <= 23
    /\ mi >= 0 /\ mi <= 59
    /\ s >= 0 /\ s <= 59

\* date.toordinal(): 0001-01-01 is day 1
Ymd2Ord(y, m, d) == DaysBeforeYear(y) + DaysBeforeMonth(y, m) + d

RECURSIVE MonthOfYearDay(_, _, _)
MonthOfYearDay(y, m, rest) ==
    IF rest <= DaysInMonth(y, m) THEN [year |-> y, month |-> m, day |-> rest]
    ELSE MonthOfYearDay(y, m + 1, rest - DaysInMonth(y, m))

\* date.fromordinal(n) for 1 <= n <= MaxOrdinal
Ord2Ymd(n) ==
    LET Years(n400, n100, n4, n1, r1) ==
            IF n1 = 4 \/ n100 = 4
            THEN [year |-> n400 * 400 + n100 * 100 + n4 * 4 + n1, month |-> 12,
                  day |-> 31]
            ELSE MonthOfYearDay(n400 * 400 + n100 * 100 + n4 * 4 + n1 + 1, 1, r1 + 1)
        In4(n400, n100, n4, r4) == Years(n400, n100, n4, r4 \div 365, r4 % 365)
        In100(n400, n100, r100) == In4(n400, n100, r100 \div 1461, r100 % 1461)
        In400(n400, r400) == In100(n400, r400 \div 36524, r400 % 36524)
    IN  In400((n - 1) \div 146097, (n - 1) % 146097)

\* date + timedelta(days=n): the sum, or OverflowError
AddDays(dt, n) ==
    LET At(ord) ==
            IF n > MaxDeltaDays \/ n < 0 - MaxDeltaDays \/ ord < 1 \/ ord > MaxOrdinal
            THEN [ok |-> FALSE]
            ELSE [ok |-> TRUE] @@ Ord2Ymd(ord)
    IN  At(Ymd2Ord(dt.year, dt.month, dt.day) + n)

(***************************************************************************)
(* modify_edf_dates.py: the fields of the EDF header.                      *)
(***************************************************************************)
HeaderMin == 256
RecIdFrom == 88
DateFrom == 168
TimeFrom == 176
TimeTo == 184

Fail == [ok |-> FALSE]

\* parse_edf_date: "dd.mm.yy" to a date; any exception is ok = FALSE
parse_edf_date(date_str) ==
    LET Date(full_year, month, day) ==
            IF ValidDate(full_year, month, day)
            THEN [ok |-> TRUE, year |-> full_year, month |-> month, day |-> day]
            ELSE Fail
        FullYear(year_int) ==
            IF year_int >= 85 THEN 1900 + year_int ELSE 2000 + year_int
        Ints(day, month, year) ==
            IF day.ok /\ month.ok /\ year.ok
            THEN Date(FullYear(year.v), month.v, day.v) ELSE Fail
        Parts(parts) ==
            IF Len(parts) # 3 THEN Fail
            ELSE Ints(ParseInt(parts[1]), ParseInt(parts[2]), ParseInt(parts[3]))
    IN  Parts(Split(Strip(date_str), "."))

\* parse_edf_time: "hh.mm.ss" to its three numbers
parse_edf_time(time_str) ==
    LET Ints(hour, minute, second) ==
            IF hour.ok /\ minute.ok /\ second.ok
            THEN [ok |-> TRUE, hour |-> hour.v, minute |-> minute.v, second |-> second.v]
            ELSE Fail
        Parts(parts) ==
            IF Len(parts) # 3 THEN Fail
            ELSE Ints(ParseInt(parts[1]), ParseInt(parts[2]), ParseInt(parts[3]))
    IN  Parts(Split(Strip(time_str), "."))

\* parse_edf_datetime: both, then datetime(y, m, d, h, mi, s)
parse_edf_datetime(date_str, time_str) ==
    LET Both(date_obj, t) ==
            IF date_obj.ok /\ t.ok /\ ValidTime(t.hour, t.minute, t.second)
            THEN [ok |-> TRUE, year |-> date_obj.year, month |-> date_obj.month,
                  day |-> date_obj.day, hour |-> t.hour, minute |-> t.minute,
                  second |-> t.second]
            ELSE Fail
    IN  Both(parse_edf_date(date_str), parse_edf_time(time_str))

\* a slip format_edf_date could have: the year written in full
format_edf_date_full_year(date_obj) ==
    Fmt0(date_obj.day, 2) \o <<".">> \o Fmt0(date_obj.month, 2) \o <<".">>
        \o Fmt0(date_obj.year, 4)

\* a slip format_edf_date could have: month before day
format_edf_date_month_first(date_obj) ==
    Fmt0(date_obj.month, 2) \o <<".">> \o Fmt0(date_obj.day, 2) \o <<".">>
        \o Fmt0(date_obj.year % 100, 2)

\* format_edf_date: a date to "dd.mm.yy"
format_edf_date(date_obj) ==
    Fmt0(date_obj.day, 2) \o <<".">> \o Fmt0(date_obj.month, 2) \o <<".">>
        \o Fmt0(date_obj.year % 100, 2)

months ==
    << <<"J", "a", "n">>, <<"F", "e", "b">>, <<"M", "a", "r">>, <<"A", "p", "r">>,
       <<"M", "a", "y">>, <<"J", "u", "n">>, <<"J", "u", "l">>, <<"A", "u", "g">>,
       <<"S", "e", "p">>, <<"O", "c", "t">>, <<"N", "o", "v">>, <<"D", "e", "c">> >>

StartdateWord == <<"S", "t", "a", "r", "t", "d", "a", "t", "e">>

\* format_startdate_field: a date to "Startdate DD-MMM-YYYY"
format_startdate_field(date_obj) ==
    StartdateWord \o <<" ">> \o Fmt0(date_obj.day, 2) \o <<"-">>
        \o months[date_obj.month] \o <<"-">> \o NatText(date_obj.year)

\* strftime('%Y-%m-%d') of the record: glibc writes a year below 1000 unpadded
IsoDate(date_obj) ==
    NatText(date_obj.year) \o <<"-">> \o Fmt0(date_obj.month, 2) \o <<"-">>
        \o Fmt0(date_obj.day, 2)

\* The body of modify_edf_header between reading the file and writing it:
\*   kind "none"   the function returns None (too small, unparseable)
\*   kind "raise"  date + timedelta raises OverflowError, which nothing catches
\*   kind "ok"     content is the buffer to write
HeaderShift(content0, random_days) ==
    LET NewRecordingId(recording_id, new_startdate_str) ==
            IF Contains(recording_id, StartdateWord)
            THEN Ljust(new_startdate_str, 80)
            ELSE Ljust(new_startdate_str, 80)
        RecId(content1, new_date) ==
            SliceAssign(content1, RecIdFrom, DateFrom,
                Slice(NewRecordingId(
                          DecodeAsciiIgnore(Slice(content1, RecIdFrom, DateFrom)),
                          format_startdate_field(new_date)), 0, 80))
        Date(new_date) ==
            RecId(SliceAssign(content0, DateFrom, TimeFrom,
                      Ljust(format_edf_date(new_date), 8)), new_date)
        Shifted(original_datetime, new_date) ==
            IF ~new_date.ok THEN [kind |-> "raise", why |-> "OverflowError"]
            ELSE [kind |-> "ok", content |-> Date(new_date),
                  original_date |-> IsoDate(original_datetime),
                  new_date |-> IsoDate(new_date)]
        Parsed(original_datetime) ==
            IF ~original_datetime.ok THEN [kind |-> "none", why |-> "unparseable"]
            ELSE Shifted(original_datetime, AddDays(original_datetime, random_days))
    IN  IF Len(content0) < HeaderMin THEN [kind |-> "none", why |-> "too small"]
        ELSE Parsed(parse_edf_datetime(
                 DecodeAsciiIgnore(Slice(content0, DateFrom, TimeFrom)),
                 DecodeAsciiIgnore(Slice(content0, TimeFrom, TimeTo))))

\* os.path.join(output_dir, os.path.basename(file))
OutputPath(file, output_dir) == [dir |-> output_dir, name |-> file.name]

\* open(path, 'wb').write(content): the file is created or replaced
WriteFile(files, path, content) ==
    [p \in DOMAIN files \cup {path} |-> IF p = path THEN content ELSE files[p]]

(***************************************************************************)
(* The per-file call of the header shifter.                                *)
(***************************************************************************)
NoCall == [op |-> "none"]

\* modify_edf_header(edf_file, patient_id, random_days, output_dir), whole:
\* the existence test, the read, the shift, makedirs and the one write.
modify_edf_header(edf_file, patient_id, random_days, output_dir) ==
    LET Done(content, shift, output_file) ==
            /\ last' = [op |-> "modify_edf_header", file |-> edf_file,
                        patient_id |-> patient_id, random_days |-> random_days,
                        output_dir |-> output_dir, output_file |-> output_file,
                        pre |-> fs, read |-> content, ret |-> shift]
            /\ IF shift.kind = "ok"
               THEN /\ dirs' = dirs \cup {output_dir}
                    /\ fs' = WriteFile(fs, output_file, shift.content)
               ELSE UNCHANGED <<fs, dirs>>
    IN  IF edf_file \in DOMAIN fs
        THEN Done(fs[edf_file], HeaderShift(fs[edf_file], random_days),
                  OutputPath(edf_file, output_dir))
        ELSE Done(<<>>, [kind |-> "none", why |-> "not found"],
                  OutputPath(edf_file, output_dir))

(***************************************************************************)
(* Header buffers the shifter is run on.                                   *)
(***************************************************************************)
\* the bytes around the fields differ from place to place
FillerAt(i) == <<"A", "b", "C", "d", "E", "f", "G">>[(i % 7) + 1]

Filler(from, to) == [k \in 1..(to - from) |-> FillerAt(from + k - 1)]

\* a file of n bytes: version, patient, recording id, date, time, the rest
MkHeader(rec, dateField, timeField, n) ==
    Slice(Filler(0, RecIdFrom) \o Ljust(rec, 80) \o dateField \o timeField
              \o Filler(TimeTo, n), 0, n)

DateFields ==
    { <<"0", "1", ".", "0", "1", ".", "2", "0">>,
      <<"1", "5", ".", "0", "6", ".", "2", "1">>,
      <<"3", "1", ".", "1", "2", ".", "8", "4">>,
      <<"0", "1", ".", "0", "1", ".", "8", "5">>,
      <<"2", "9", ".", "0", "2", ".", "2", "0">>,
      <<"1", ".", "1", ".", "2", "0", " ", " ">>,
      <<"0", "1", ".", "0", "1", ".", "2", "#FF">>,
      <<"3", "1", ".", "0", "2", ".", "2", "0">>,
      <<"0", "1", "0", "1", "2", "0", "2", "0">> }

GoodTime == <<"1", "3", ".", "3", "3", ".", "4", "5">>
BadTime == <<"2", "4", ".", "0", "0", ".", "0", "0">>

\* what format_startdate_field gives for 01.01.20
RecCanonical ==
    StartdateWord \o <<" ", "0", "1", "-", "J", "a", "n", "-", "2", "0", "2", "0">>

\* the EDF+ form: upper-case month, then the other subfields
RecEdfPlus ==
    StartdateWord \o <<" ", "0", "1", "-", "J", "A", "N", "-", "2", "0", "2", "0",
                       " ", "X", " ", "t", "e", "c", "h">>

RecBlank == <<>>

HeaderInputs ==
    { MkHeader(rec, df, GoodTime, HeaderMin) :
          rec \in {RecCanonical, RecEdfPlus, RecBlank}, df \in DateFields }
    \cup { MkHeader(RecCanonical, df, BadTime, HeaderMin) : df \in DateFields }
    \cup { MkHeader(RecCanonical, df, GoodTime, n) :
               df \in DateFields, n \in {HeaderMin - 1, HeaderMin + 3} }

Offsets == {0, 1, -1, 300, -10, 3000000, -400000}

EdfName ==
    <<"P", "R", "V", "-", "0", "0", "1", "-", "A", "B", "1", "2", "-", "4", "5",
      ".", "e", "d", "f">>

OtherEdfName ==
    <<"P", "R", "V", "-", "0", "0", "1", "-", "Z", "Z", "9", "9", "-", "4", "5",
      ".", "e", "d", "f">>

AB12 == <<"A", "B", "1", "2">>

NoRun == [kind |-> "none"]

\* one recording in the input directory
InitHeader ==
    /\ stage = "header"
    /\ pc = "idle"
    /\ \E content \in HeaderInputs : fs = [p \in {[dir |-> "in", name |-> EdfName]} |-> content]
    /\ dirs = {"in"}
    /\ last = NoCall
    /\ ncalls = 0
    /\ run = NoRun

\* a caller runs modify_edf_header on a path, with an offset and an output directory
CallModifyEdfHeader ==
    /\ stage = "header"
    /\ ncalls < MaxCalls
    /\ \E name \in {EdfName, OtherEdfName}, random_days \in Offsets,
          output_dir \in {"in", "out"} :
           modify_edf_header([dir |-> "in", name |-> name], AB12, random_days, output_dir)
    /\ ncalls' = ncalls + 1
    /\ UNCHANGED <<stage, pc, run>>

NextHeader == CallModifyEdfHeader

SpecHeader == InitHeader /\ [][NextHeader]_vars

(***************************************************************************)
(* Claims about modify_edf_header, checked under SpecHeader.               *)
(***************************************************************************)
HdrCall == last.op = "modify_edf_header"

\* the call returned its record, so it wrote its output file
HdrOk == HdrCall /\ last.ret.kind = "ok"

\* the date the call decoded from the header it read
HdrOriginal ==
    parse_edf_datetime(DecodeAsciiIgnore(Slice(last.read, DateFrom, TimeFrom)),
                       DecodeAsciiIgnore(Slice(last.read, TimeFrom, TimeTo)))

OrdOf(date_obj) == Ymd2Ord(date_obj.year, date_obj.month, date_obj.day)

\* the date field of the file the call wrote, decoded as the header's date is
HdrWrittenDate ==
    parse_edf_date(DecodeAsciiIgnore(Slice(fs[last.output_file], DateFrom, TimeFrom)))

\* C1: the buffer modify_edf_header writes is as long as the one it read and
\* equal to it at every index outside 88..175 (recording id and start date);
\* the start time at 176..183 is unchanged.
C1_FrameOutsideRewrittenFields ==
    HdrOk =>
        /\ Len(fs[last.output_file]) = Len(last.read)
        /\ \A i \in 0..(Len(last.read) - 1) :
               (i < RecIdFrom \/ i >= TimeFrom)
                   => fs[last.output_file][i + 1] = last.read[i + 1]
        /\ Slice(fs[last.output_file], TimeFrom, TimeTo)
               = Slice(last.read, TimeFrom, TimeTo)

\* C1 witness: a header with bytes after the 256th, shifted by 300 days, written
\* with another date field
C1_Witness ==
    /\ HdrOk
    /\ last.random_days = 300
    /\ Len(last.read) > HeaderMin
    /\ Slice(fs[last.output_file], DateFrom, TimeFrom)
           # Slice(last.read, DateFrom, TimeFrom)

\* C2 as stated: for every original date D and offset d, the written date field
\* decodes (yy >= 85 -> 19yy, else 20yy) to D + d days.
C2_DecodedDateIsShifted ==
    HdrOk => /\ HdrWrittenDate.ok
             /\ OrdOf(HdrWrittenDate) = OrdOf(HdrOriginal) + last.random_days

\* the dates a two-digit year can name under the decoding rule
YyWindowFirst == Ymd2Ord(1985, 1, 1)
YyWindowLast == Ymd2Ord(2084, 12, 31)

\* C2 amended: the written date field decodes to D + d days whenever D + d lies
\* in 1985-01-01 .. 2084-12-31.
C2_DecodedDateIsShiftedInWindow ==
    (/\ HdrOk
     /\ OrdOf(HdrOriginal) + last.random_days >= YyWindowFirst
     /\ OrdOf(HdrOriginal) + last.random_days <= YyWindowLast)
        => /\ HdrWrittenDate.ok
           /\ OrdOf(HdrWrittenDate) = OrdOf(HdrOriginal) + last.random_days

\* C2 witness: 01.01.20 shifted by 300 days is written as 27.10.20
C2_Witness ==
    /\ HdrOk
    /\ last.random_days = 300
    /\ Slice(last.read, DateFrom, TimeFrom) = <<"0", "1", ".", "0", "1", ".", "2", "0">>
    /\ Slice(fs[last.output_file], DateFrom, TimeFrom)
           = <<"2", "7", ".", "1", "0", ".", "2", "0">>

\* a maximum-date ceiling a run could be configured with
CeilingDate == [year |-> 2020, month |-> 12, day |-> 31]

\* C3: when the shifted date D + d is later than the ceiling, the call writes
\* nothing, does not return success, and the file system is as it was.
C3_BoundEnforced ==
    (/\ HdrCall
     /\ last.file \in DOMAIN last.pre
     /\ Len(last.read) >= HeaderMin
     /\ HdrOriginal.ok
     /\ OrdOf(HdrOriginal) + last.random_days > OrdOf(CeilingDate))
        => /\ last.ret.kind # "ok"
           /\ fs = last.pre

\* C4: with offset 0 the written file is byte for byte the file read.
C4_ZeroOffsetIsIdentity ==
    (HdrOk /\ last.random_days = 0) => fs[last.output_file] = last.read

\* C6: the file modify_edf_header read has the same content after the call.
C6_SourceNeverWritten ==
    (HdrCall /\ last.file \in DOMAIN last.pre) => fs[last.file] = last.pre[last.file]

(***************************************************************************)
(* re: the regular expressions of the code, matched as Python's re does    *)
(* (leftmost match, greedy or lazy repetition with backtracking).  A       *)
(* pattern is a sequence of atoms; an atom is one character or one class,  *)
(* with a repetition "1", "+", "*" or "*?", and may be the capture group.  *)
(***************************************************************************)
UpperLetters ==
    {"A", "B", "C", "D", "E", "F", "G", "H", "I", "J", "K", "L", "M", "N", "O", "P",
     "Q", "R", "S", "T", "U", "V", "W", "X", "Y", "Z"}

ClassHas(cls, c) ==
    CASE cls = "digit" -> IsDigit(c)
      [] cls = "notdash" -> c # "-"
      [] cls = "upnum" -> IsDigit(c) \/ c \in UpperLetters
      [] cls = "space" -> c \in Whitespace
      [] cls = "notquote" -> c # "\""
      [] cls = "any" -> TRUE

Lit(c) == [kind |-> "lit", c |-> c, q |-> "1", grp |-> FALSE]

Cls(cls, q, grp) == [kind |-> "cls", c |-> cls, q |-> q, grp |-> grp]

Lits(word) == [i \in 1..Len(word) |-> Lit(word[i])]

AtomHas(atom, ch) == IF atom.kind = "lit" THEN ch = atom.c ELSE ClassHas(atom.c, ch)

SetMin(S) == CHOOSE x \in S : \A y \in S : x <= y

SetMax(S) == CHOOSE x \in S : \A y \in S : x >= y

\* how many characters from pos on the atom accepts in a row
RECURSIVE RunLen(_, _, _)
RunLen(atom, text, pos) ==
    IF pos <= Len(text) /\ AtomHas(atom, text[pos])
    THEN 1 + RunLen(atom, text, pos + 1) ELSE 0

\* the most characters the atom can take at pos
AtomRun(atom, text, pos) ==
    IF atom.q = "1"
    THEN (IF pos <= Len(text) /\ AtomHas(atom, text[pos]) THEN 1 ELSE 0)
    ELSE IF atom.kind = "cls" /\ atom.c = "any"
    THEN (IF pos <= Len(text) THEN Len(text) - pos + 1 ELSE 0)
    ELSE RunLen(atom, text, pos)

NoMatch == [ok |-> FALSE]

\* the match of atoms k.. of pat at pos: where it ends and what the group holds.
\* MatchCount tries atom k with n characters, then the next count the
\* quantifier prefers: one fewer when greedy, one more when lazy.
RECURSIVE MatchFrom(_, _, _, _)
RECURSIVE MatchCount(_, _, _, _, _, _)
MatchCount(pat, k, text, pos, n, most) ==
    LET Least == IF pat[k].q \in {"1", "+"} THEN 1 ELSE 0
        Other == IF pat[k].q = "*?" THEN n + 1 ELSE n - 1
        With(rest) ==
            IF rest.ok
            THEN [ok |-> TRUE, start |-> pos, end |-> rest.end,
                  grp |-> IF pat[k].grp THEN SubSeq(text, pos, pos + n - 1) ELSE rest.grp]
            ELSE MatchCount(pat, k, text, pos, Other, most)
    IN  IF n < Least \/ n > most THEN NoMatch
        ELSE With(MatchFrom(pat, k + 1, text, pos + n))

MatchFrom(pat, k, text, pos) ==
    LET First(most) ==
            MatchCount(pat, k, text, pos,
                       IF pat[k].q = "*?" THEN 0 ELSE most, most)
        After(rest) ==
            IF rest.ok THEN [rest EXCEPT !.start = pos] ELSE NoMatch
        \* the atoms from k on that take exactly one character each, at once
        Single(n) ==
            IF /\ pos + n - 1 <= Len(text)
               /\ \A i \in 0..(n - 1) : AtomHas(pat[k + i], text[pos + i])
            THEN After(MatchFrom(pat, k + n, text, pos + n))
            ELSE NoMatch
        Singles == {n \in 1..(Len(pat) - k + 1) :
                       \A i \in k..(k + n - 1) : pat[i].q = "1" /\ ~pat[i].grp}
    IN  IF k > Len(pat) THEN [ok |-> TRUE, start |-> pos, end |-> pos, grp |-> <<>>]
        ELSE IF pat[k].q = "1" /\ ~pat[k].grp
        THEN (IF pos <= Len(text) /\ AtomHas(pat[k], text[pos])
              THEN Single(SetMax(Singles)) ELSE NoMatch)
        ELSE First(AtomRun(pat[k], text, pos))

\* re.search(pat, text) from position from on: the leftmost match
Search(pat, text, from) ==
    LET At(starts) ==
            IF starts = {} THEN NoMatch ELSE MatchFrom(pat, 1, text, SetMin(starts))
    IN  At({p \in from..Len(text) : MatchFrom(pat, 1, text, p).ok})

\* re.findall / the matches re.sub replaces: leftmost, one after the other
RECURSIVE FindAll(_, _, _)
FindAll(pat, text, from) ==
    LET Rest(m) == IF m.ok THEN <<m>> \o FindAll(pat, text, m.end) ELSE <<>>
    IN  Rest(Search(pat, text, from))

\* the text with match k replaced by reps[k]
RECURSIVE Rebuild(_, _, _, _, _)
Rebuild(text, ms, reps, k, pos) ==
    IF k > Len(ms) THEN SubSeq(text, pos, Len(text))
    ELSE SubSeq(text, pos, ms[k].start - 1) \o reps[k]
             \o Rebuild(text, ms, reps, k + 1, ms[k].end)

\* re.sub(pat, constant, text)
SubConst(pat, repl, text) ==
    LET With(ms) == Rebuild(text, ms, [k \in 1..Len(ms) |-> repl], 1, 1)
    IN  With(FindAll(pat, text, 1))

(***************************************************************************)
(* update_xml_createtime.py: timestamps as text.                           *)
(***************************************************************************)
AllDigits(t) == \A i \in 1..Len(t) : IsDigit(t[i])

\* str.rstrip('Z')
RECURSIVE RStripZ(_)
RStripZ(t) ==
    IF t # <<>> /\ t[Len(t)] = "Z" THEN RStripZ(SubSeq(t, 1, Len(t) - 1)) ELSE t

\* datetime.fromisoformat on "YYYY-MM-DD" and "YYYY-MM-DD?HH:MM:SS"; any other
\* text the model feeds it raises
FromIsoFormat(t) ==
    LET DateOk == /\ Len(t) >= 10
                  /\ AllDigits(SubSeq(t, 1, 4)) /\ t[5] = "-"
                  /\ AllDigits(SubSeq(t, 6, 7)) /\ t[8] = "-"
                  /\ AllDigits(SubSeq(t, 9, 10))
        TimeOk == /\ Len(t) = 19
                  /\ AllDigits(SubSeq(t, 12, 13)) /\ t[14] = ":"
                  /\ AllDigits(SubSeq(t, 15, 16)) /\ t[17] = ":"
                  /\ AllDigits(SubSeq(t, 18, 19))
        Num(a, b) == DigitsVal(SubSeq(t, a, b), 0)
        Make(y, m, d, h, mi, sec) ==
            IF ValidDate(y, m, d) /\ ValidTime(h, mi, sec)
            THEN [ok |-> TRUE, year |-> y, month |-> m, day |-> d,
                  hour |-> h, minute |-> mi, second |-> sec]
            ELSE Fail
    IN  IF DateOk /\ Len(t) = 10 THEN Make(Num(1, 4), Num(6, 7), Num(9, 10), 0, 0, 0)
        ELSE IF DateOk /\ TimeOk
        THEN Make(Num(1, 4), Num(6, 7), Num(9, 10), Num(12, 13), Num(15, 16), Num(18, 19))
        ELSE Fail

\* parse_createtime: the datetime, or None (ok = FALSE)
parse_createtime(createtime_str) == FromIsoFormat(RStripZ(createtime_str))

\* strftime('%Y-%m-%d'); glibc writes a year below 1000 without padding
StrfDate(dt) ==
    NatText(dt.year) \o <<"-">> \o Fmt0(dt.month, 2) \o <<"-">> \o Fmt0(dt.day, 2)

\* strftime('%H:%M:%S')
StrfTime(dt) ==
    Fmt0(dt.hour, 2) \o <<":">> \o Fmt0(dt.minute, 2) \o <<":">> \o Fmt0(dt.second, 2)

\* format_createtime: strftime('%Y-%m-%dT%H:%M:%SZ')
format_createtime(dt) == StrfDate(dt) \o <<"T">> \o StrfTime(dt) \o <<"Z">>

\* datetime.strptime(text, '%Y-%m-%d'): four digits, then one or two, twice
StrpDate(text) ==
    LET Date(y, m, d) ==
            IF ValidDate(y, m, d) THEN [ok |-> TRUE, year |-> y, month |-> m, day |-> d]
            ELSE Fail
        Parts(parts) ==
            IF /\ Len(parts) = 3
               /\ Len(parts[1]) = 4 /\ AllDigits(parts[1])
               /\ Len(parts[2]) \in {1, 2} /\ AllDigits(parts[2])
               /\ Len(parts[3]) \in {1, 2} /\ AllDigits(parts[3])
            THEN Date(DigitsVal(parts[1], 0), DigitsVal(parts[2], 0), DigitsVal(parts[3], 0))
            ELSE Fail
    IN  Parts(Split(text, "-"))

\* calculate_date_offset: the days between the two dates; 0 when either does not parse
calculate_date_offset(original_date_str, new_date_str) ==
    LET Diff(original_date, new_date) ==
            IF original_date.ok /\ new_date.ok
            THEN Ymd2Ord(new_date.year, new_date.month, new_date.day)
                     - Ymd2Ord(original_date.year, original_date.month, original_date.day)
            ELSE 0
    IN  Diff(StrpDate(original_date_str), StrpDate(new_date_str))

\* old_dt + timedelta(days=date_offset): the date moves, the time of day stays
AddDaysKeepTime(dt, n) ==
    LET To(date) ==
            IF date.ok
            THEN [ok |-> TRUE, year |-> date.year, month |-> date.month, day |-> date.day,
                  hour |-> dt.hour, minute |-> dt.minute, second |-> dt.second]
            ELSE Fail
    IN  To(AddDays(dt, n))

(***************************************************************************)
(* An annotation document.  The file holds the text; the model keeps the   *)
(* document as the tokens the text is written from, so that what           *)
(* ElementTree parses out of the text is read off the tokens:              *)
(*   raw    text between tags (white space, character data, a comment)     *)
(*   open   <tag attr...> or, when empty, <tag attr.../>                   *)
(*   close  </tag>                                                         *)
(* An attribute is its leading white space, name, "=" with any spaces      *)
(* around it, the quote character and the value.                           *)
(***************************************************************************)
RECURSIVE Flatten(_)
Flatten(ss) == IF ss = <<>> THEN <<>> ELSE Head(ss) \o Flatten(Tail(ss))

RenderAttr(a) == a.ws \o a.name \o a.eq \o a.q \o a.val \o a.q

RenderToken(t) ==
    CASE t.t = "raw" -> t.s
      [] t.t = "open" ->
            <<"<">> \o t.tag \o Flatten([i \in 1..Len(t.attrs) |-> RenderAttr(t.attrs[i])])
                \o (IF t.empty THEN <<"/", ">">> ELSE <<">">>)
      [] t.t = "close" -> <<"<", "/">> \o t.tag \o <<">">>

\* the text of the file
RenderDoc(tokens) == Flatten([i \in 1..Len(tokens) |-> RenderToken(tokens[i])])

\* the check of the tags ElementTree makes: every close matches the last open
\* element, one root, nothing open at the end, no attribute twice in a tag
RECURSIVE Nesting(_, _, _, _)
Nesting(tokens, k, stack, roots) ==
    IF k > Len(tokens) THEN stack = <<>> /\ roots = 1
    ELSE CASE tokens[k].t = "raw" -> Nesting(tokens, k + 1, stack, roots)
           [] tokens[k].t = "open" ->
                /\ \A i, j \in 1..Len(tokens[k].attrs) :
                       i # j => tokens[k].attrs[i].name # tokens[k].attrs[j].name
                /\ (stack = <<>> => roots = 0)
                /\ Nesting(tokens, k + 1,
                       IF tokens[k].empty THEN stack ELSE <<tokens[k].tag>> \o stack,
                       IF stack = <<>> THEN roots + 1 ELSE roots)
           [] tokens[k].t = "close" ->
                /\ stack # <<>>
                /\ Head(stack) = tokens[k].tag
                /\ Nesting(tokens, k + 1, Tail(stack), roots)

\* ET.parse(xml_file) succeeds
WellFormed(tokens) == Nesting(tokens, 1, <<>>, 0)

IsOpen(t) == t.t = "open"

\* root.iter(): every element, the root first, in document order
IterElements(tokens) == SelectSeq(tokens, IsOpen)

\* 'name' in elem.attrib
HasAttrib(elem, name) == \E i \in 1..Len(elem.attrs) : elem.attrs[i].name = name

\* elem.get(name) / elem.attrib[name]
GetAttrib(elem, name) ==
    elem.attrs[CHOOSE i \in 1..Len(elem.attrs) : elem.attrs[i].name = name].val

CreateTimeName == <<"c", "r", "e", "a", "t", "e", "T", "i", "m", "e">>

(***************************************************************************)
(* update_xml_createtime.py: the per-file operation.                       *)
(***************************************************************************)
\* r'PRV-\d+-([A-Z0-9]+)-\d+'
CreatetimeIdPattern ==
    Lits(<<"P", "R", "V", "-">>) \o <<Cls("digit", "+", FALSE)>> \o Lits(<<"-">>)
        \o <<Cls("upnum", "+", TRUE)>> \o Lits(<<"-">>) \o <<Cls("digit", "+", FALSE)>>

\* extract_patient_id_from_filename of update_xml_createtime.py, on the basename
extract_patient_id_createtime(basename) ==
    LET Group(m) == IF m.ok THEN [ok |-> TRUE, id |-> Strip(m.grp)] ELSE Fail
    IN  Group(Search(CreatetimeIdPattern, basename, 1))

DigitAtom == Cls("digit", "1", FALSE)

\* r'createTime="(\d{4}-\d{2}-\d{2}T\d{2}:\d{2}:\d{2}Z)"'
createtime_pattern ==
    Lits(<<"c", "r", "e", "a", "t", "e", "T", "i", "m", "e", "=", "\"">>)
        \o <<DigitAtom, DigitAtom, DigitAtom, DigitAtom>> \o Lits(<<"-">>)
        \o <<DigitAtom, DigitAtom>> \o Lits(<<"-">>) \o <<DigitAtom, DigitAtom>>
        \o Lits(<<"T">>) \o <<DigitAtom, DigitAtom>> \o Lits(<<":">>)
        \o <<DigitAtom, DigitAtom>> \o Lits(<<":">>) \o <<DigitAtom, DigitAtom>>
        \o Lits(<<"Z", "\"">>)

\* match.group(1) of createtime_pattern: the value between the quotes
StampOfMatch(text, m) == SubSeq(text, m.start + 12, m.end - 2)

\* replace_createtime(match): the replacement text; ok = FALSE when the addition
\* raises OverflowError
replace_createtime(text, m, date_offset) ==
    LET New(new_dt) ==
            IF new_dt.ok
            THEN [ok |-> TRUE,
                  s |-> <<"c", "r", "e", "a", "t", "e", "T", "i", "m", "e", "=", "\"">> \o format_createtime(new_dt) \o <<"\"">>]
            ELSE Fail
        Old(old_dt) ==
            IF old_dt.ok THEN New(AddDaysKeepTime(old_dt, date_offset))
            ELSE [ok |-> TRUE, s |-> SubSeq(text, m.start, m.end - 1)]
    IN  Old(parse_createtime(StampOfMatch(text, m)))

\* re.sub(createtime_pattern, replace_createtime, xml_content)
SubCreatetimes(xml_content, date_offset) ==
    LET Built(ms, reps) ==
            IF \A k \in 1..Len(reps) : reps[k].ok
            THEN [ok |-> TRUE, updated_count |-> Len(ms),
                  text |-> Rebuild(xml_content, ms, [k \in 1..Len(reps) |-> reps[k].s], 1, 1)]
            ELSE Fail
        With(ms) ==
            Built(ms, [k \in 1..Len(ms) |-> replace_createtime(xml_content, ms[k], date_offset)])
    IN  With(FindAll(createtime_pattern, xml_content, 1))

\* a mutation: the first createTime is never compared with the ledger
SameDateAlways(createtime_date, edf_original_date) == TRUE

\* createtime_date != edf_original_date, negated
SameDate(createtime_date, edf_original_date) == createtime_date = edf_original_date

Outcome(status, error) == [status |-> status, error |-> error, write |-> FALSE]

\* update_xml_createtimes after the file is read: from the parse to the text to
\* write.  tokens is the document the text xml_content is written from.
ShiftCreatetimes(xml_content, tokens, edf_data, can_write) ==
    LET Write(sub) ==
            IF ~sub.ok THEN Outcome("failed", "Unexpected error")
            ELSE IF ~can_write THEN Outcome("failed", "Unexpected error")
            ELSE [status |-> "success", error |-> "", write |-> TRUE,
                  text |-> sub.text, updated_count |-> sub.updated_count]
        Offset(date_offset) ==
            IF date_offset = 0 THEN Outcome("skipped", "No date offset needed")
            ELSE Write(SubCreatetimes(xml_content, date_offset)) @@ [date_offset |-> date_offset]
        First(first_dt) ==
            IF ~first_dt.ok THEN Outcome("failed", "Could not parse first createTime")
            ELSE IF ~SameDate(StrfDate(first_dt), edf_data.original_edf_startdate)
            THEN Outcome("skipped", "CreateTime date does not match EDF start date")
            ELSE Offset(calculate_date_offset(edf_data.original_edf_startdate,
                                              edf_data.new_edf_startdate))
        Elements(createtime_elements) ==
            IF createtime_elements = <<>>
            THEN Outcome("skipped", "No createTime attributes found in XML")
            ELSE First(parse_createtime(GetAttrib(createtime_elements[1], CreateTimeName)))
        HasCreateTime(elem) == HasAttrib(elem, CreateTimeName)
    IN  IF ~WellFormed(tokens) THEN Outcome("failed", "XML parsing error")
        ELSE Elements(SelectSeq(IterElements(tokens), HasCreateTime))

\* what a file holds: a document (its text is RenderDoc of the tokens) or a text
\* one of the operations wrote
ReadText(content) ==
    IF content.kind = "doc" THEN RenderDoc(content.tokens) ELSE content.text

TextFile(text) == [kind |-> "text", text |-> text]

\* update_xml_createtimes on the files and directories given: what it read and
\* what it returns
ShiftResult(files, existing, xml_file, lookup, output_dir) ==
    LET Known(patient_id) ==
            IF patient_id \notin DOMAIN lookup
            THEN [read |-> <<>>,
                  ret |-> Outcome("skipped", "Patient ID not found in CSV results")]
            ELSE IF xml_file \notin DOMAIN files
            THEN [read |-> <<>>, ret |-> Outcome("failed", "Unexpected error")]
            ELSE [read |-> ReadText(files[xml_file]),
                  ret |-> ShiftCreatetimes(ReadText(files[xml_file]), files[xml_file].tokens,
                                           lookup[patient_id], output_dir \in existing)]
        Resolved(id) ==
            IF ~id.ok \/ id.id = <<>>
            THEN [read |-> <<>>,
                  ret |-> Outcome("failed", "Could not extract patient ID from filename")]
            ELSE Known(id.id)
    IN  Resolved(extract_patient_id_createtime(xml_file.name))

\* the files after the call, were the text read written out on every path
ShiftWriteAlways(files, xml_file, output_dir, result) ==
    WriteFile(files, OutputPath(xml_file, output_dir),
              TextFile(IF result.ret.write THEN result.ret.text ELSE result.read))

\* the files after the call
ShiftWrite(files, xml_file, output_dir, result) ==
    IF result.ret.write
    THEN WriteFile(files, OutputPath(xml_file, output_dir), TextFile(result.ret.text))
    ELSE files

\* update_xml_createtimes(xml_file, lookup, output_dir), whole
update_xml_createtimes(xml_file, lookup, output_dir) ==
    LET Done(result) ==
            /\ last' = [op |-> "update_xml_createtimes", file |-> xml_file,
                        lookup |-> lookup, output_dir |-> output_dir,
                        output_file |-> OutputPath(xml_file, output_dir),
                        pre |-> fs, read |-> result.read, ret |-> result.ret]
            /\ fs' = ShiftWrite(fs, xml_file, output_dir, result)
            /\ UNCHANGED dirs
    IN  Done(ShiftResult(fs, dirs, xml_file, lookup, output_dir))

(***************************************************************************)
(* update_xml.py: the per-file operation.                                  *)
(***************************************************************************)
\* r'\s+NAME="[^"]*"'
AttributePattern(name) ==
    <<Cls("space", "+", FALSE)>> \o Lits(name \o <<"=", "\"">>)
        \o <<Cls("notquote", "*", FALSE)>> \o Lits(<<"\"">>)

\* r'\s*<channels>.*?</channels>\s*' with re.DOTALL
ChannelsPattern ==
    <<Cls("space", "*", FALSE)>> \o Lits(<<"<", "c", "h", "a", "n", "n", "e", "l", "s", ">">>) \o <<Cls("any", "*?", FALSE)>>
        \o Lits(<<"<", "/", "c", "h", "a", "n", "n", "e", "l", "s", ">">>) \o <<Cls("space", "*", FALSE)>>

ChannelsFiller == <<"\n", " ", " ", " ", " ">>

AnnotatorName == <<"a", "n", "n", "o", "t", "a", "t", "o", "r">>

CreatorIdName == <<"c", "r", "e", "a", "t", "o", "r", "I", "d">>

LayerName == <<"l", "a", "y", "e", "r">>

AnnotationTag == <<"a", "n", "n", "o", "t", "a", "t", "i", "o", "n">>

\* a mutation: the layer attribute is removed as well
RemoveIdentifyingAndLayer(content) ==
    LET Channels(c) == SubConst(ChannelsPattern, ChannelsFiller, c)
        Layer(c) == Channels(SubConst(AttributePattern(LayerName), <<>>, c))
        CreatorId(c) == Layer(SubConst(AttributePattern(CreatorIdName), <<>>, c))
        Annotator(c) == CreatorId(SubConst(AttributePattern(AnnotatorName), <<>>, c))
    IN  Annotator(SubConst(AttributePattern(CreateTimeName), <<>>, content))

\* the four re.sub calls of process_xml_file, in their order
RemoveIdentifying(content) ==
    LET Channels(c) == SubConst(ChannelsPattern, ChannelsFiller, c)
        CreatorId(c) == Channels(SubConst(AttributePattern(CreatorIdName), <<>>, c))
        Annotator(c) == CreatorId(SubConst(AttributePattern(AnnotatorName), <<>>, c))
    IN  Annotator(SubConst(AttributePattern(CreateTimeName), <<>>, content))

\* how many elements are open before token k
Depth(tokens, k) ==
    Cardinality({j \in 1..(k - 1) : tokens[j].t = "open" /\ ~tokens[j].empty})
        - Cardinality({j \in 1..(k - 1) : tokens[j].t = "close"})

IsAnnotation(elem) == elem.tag = AnnotationTag

\* root.iter('annotation'), which the code does not call: the elements with
\* that tag at any depth
FindAnnotationsAnywhere(tokens) == SelectSeq(IterElements(tokens), IsAnnotation)

\* root.findall('annotation'): the children of the root with that tag
FindAnnotations(tokens) ==
    LET At(k) == tokens[k]
        Picks == {k \in 1..Len(tokens) :
                     /\ tokens[k].t = "open"
                     /\ tokens[k].tag = AnnotationTag
                     /\ Depth(tokens, k) = 1}
        RECURSIVE Take(_)
        Take(k) == IF k > Len(tokens) THEN <<>>
                   ELSE IF k \in Picks THEN <<At(k)>> \o Take(k + 1)
                   ELSE Take(k + 1)
    IN  Take(1)

\* the first value of the attribute among the annotations, '' when there is none
FirstOf(annotations, name) ==
    LET Having(with) == IF with = <<>> THEN <<>> ELSE GetAttrib(with[1], name)
        Has(elem) == HasAttrib(elem, name)
    IN  Having(SelectSeq(annotations, Has))

\* the set of layer values
LayersOf(annotations) ==
    {GetAttrib(annotations[i], LayerName) :
        i \in {j \in 1..Len(annotations) : HasAttrib(annotations[j], LayerName)}}

NoRecord == [none |-> TRUE]

\* process_xml_file on the files given: what it read, what it returns and the
\* text it writes
DeidResult(files, xml_file, patient_id, output_dir) ==
    LET Nothing == [read |-> <<>>, ret |-> NoRecord, wrote |-> FALSE, text |-> <<>>]
        Record(annotations) ==
            [none |-> FALSE,
             annotator |-> FirstOf(annotations, AnnotatorName),
             creatorId |-> FirstOf(annotations, CreatorIdName),
             more_than_one_layer |->
                 IF Cardinality(LayersOf(annotations)) > 1 THEN "yes" ELSE "no",
             output_file |-> OutputPath(xml_file, output_dir)]
        Found(content, annotations) ==
            IF annotations = <<>> THEN Nothing
            ELSE [read |-> content, ret |-> Record(annotations), wrote |-> TRUE,
                  text |-> RemoveIdentifying(content)]
    IN  IF xml_file \notin DOMAIN files THEN Nothing
        ELSE IF ~WellFormed(files[xml_file].tokens) THEN Nothing
        ELSE Found(ReadText(files[xml_file]), FindAnnotations(files[xml_file].tokens))

\* the files after the call
DeidWrite(files, xml_file, output_dir, result) ==
    IF result.wrote
    THEN WriteFile(files, OutputPath(xml_file, output_dir), TextFile(result.text))
    ELSE files

\* process_xml_file(xml_file, patient_id, output_dir), whole: the parse, the
\* metadata, the removals, makedirs and the one write
process_xml_file(xml_file, patient_id, output_dir) ==
    LET Done(result) ==
            /\ last' = [op |-> "process_xml_file", file |-> xml_file,
                        patient_id |-> patient_id, output_dir |-> output_dir,
                        output_file |-> OutputPath(xml_file, output_dir),
                        pre |-> fs, read |-> result.read, ret |-> result.ret]
            /\ fs' = DeidWrite(fs, xml_file, output_dir, result)
            /\ dirs' = IF result.wrote THEN dirs \cup {output_dir} ELSE dirs
    IN  Done(DeidResult(fs, xml_file, patient_id, output_dir))

(***************************************************************************)
(* Annotation files, ledgers and calls of the two sidecar operations.      *)
(***************************************************************************)
Raw(s) == [t |-> "raw", s |-> s]

Open(tag, attrs) == [t |-> "open", tag |-> tag, attrs |-> attrs, empty |-> FALSE]

Empty(tag, attrs) == [t |-> "open", tag |-> tag, attrs |-> attrs, empty |-> TRUE]

Close(tag) == [t |-> "close", tag |-> tag]

Attr(name, val) == [ws |-> <<" ">>, name |-> name, eq |-> <<"=">>, q |-> <<"\"">>, val |-> val]

AttrSingleQuoted(name, val) ==
    [ws |-> <<" ">>, name |-> name, eq |-> <<"=">>, q |-> <<"'">>, val |-> val]

AttrOnNewLine(name, val) ==
    [ws |-> <<"\n", " ", " ", " ">>, name |-> name, eq |-> <<"=">>, q |-> <<"\"">>, val |-> val]

Stamp0 == <<"2", "0", "2", "0", "-", "0", "8", "-", "2", "0", "T", "1", "8", ":", "2", "4", ":", "3", "5", "Z">>

Stamp1 == <<"2", "0", "2", "0", "-", "0", "8", "-", "2", "0", "T", "1", "9", ":", "0", "0", ":", "0", "0", "Z">>

StampNextDay == <<"2", "0", "2", "0", "-", "0", "8", "-", "2", "1", "T", "1", "8", ":", "2", "4", ":", "3", "5", "Z">>

StampLast == <<"9", "9", "9", "9", "-", "1", "2", "-", "3", "1", "T", "2", "3", ":", "5", "9", ":", "5", "9", "Z">>

StampNoSuchDay == <<"2", "0", "2", "0", "-", "1", "3", "-", "4", "5", "T", "0", "0", ":", "0", "0", ":", "0", "0", "Z">>

StampDateOnly == <<"2", "0", "2", "0", "-", "0", "8", "-", "2", "0">>

StampUnknown == <<"u", "n", "k", "n", "o", "w", "n">>

ChannelsTag == <<"c", "h", "a", "n", "n", "e", "l", "s">>

\* <annotations> with one annotation holding a channels block and one empty annotation
Doc(first, second, before, after) ==
    << Open(<<"a", "n", "n", "o", "t", "a", "t", "i", "o", "n", "s">>, <<>>), Raw(<<"\n", " ">>),
       Open(AnnotationTag,
            first \o <<Attr(AnnotatorName, <<"a", "n", "n">>), Attr(CreatorIdName, <<"c", "1">>),
                       Attr(LayerName, <<"L", "1">>)>>),
       Raw(before), Open(ChannelsTag, <<>>), Raw(<<"1">>), Close(ChannelsTag), Raw(after),
       Close(AnnotationTag), Raw(<<"\n", " ">>),
       Empty(AnnotationTag, second \o <<Attr(LayerName, <<"L", "2">>)>>), Raw(<<"\n">>),
       Close(<<"a", "n", "n", "o", "t", "a", "t", "i", "o", "n", "s">>) >>

Ct(val) == <<Attr(CreateTimeName, val)>>

TypicalDoc == Doc(Ct(Stamp0), Ct(Stamp1), <<"\n", " ", " ">>, <<"\n", " ">>)

\* the root element is cut off: not well formed
TruncatedDoc == SubSeq(TypicalDoc, 1, Len(TypicalDoc) - 1)

\* a root without annotation children
NoAnnotationDoc ==
    << Open(<<"a", "n", "n", "o", "t", "a", "t", "i", "o", "n", "s">>, <<>>), Raw(<<"\n", " ">>),
       Empty(<<"n", "o", "t", "e">>, Ct(Stamp0)), Raw(<<"\n">>), Close(<<"a", "n", "n", "o", "t", "a", "t", "i", "o", "n", "s">>) >>

\* a comment that quotes a stamp, ahead of the annotations
CommentDoc ==
    << Open(<<"a", "n", "n", "o", "t", "a", "t", "i", "o", "n", "s">>, <<>>),
       Raw(<<"<", "!", "-", "-", " ", "c", "r", "e", "a", "t", "e", "T", "i", "m", "e", "=", "\"", "2", "0", "2", "0", "-", "0", "8", "-", "2", "0", "T", "0", "0", ":", "0", "0", ":", "0", "0", "Z", "\"", " ", "-", "-", ">">>),
       Empty(AnnotationTag, Ct(Stamp0)), Close(<<"a", "n", "n", "o", "t", "a", "t", "i", "o", "n", "s">>) >>

\* an annotation inside a group, ahead of an annotation child of the root
NestedDoc ==
    << Open(<<"a", "n", "n", "o", "t", "a", "t", "i", "o", "n", "s">>, <<>>), Raw(<<"\n", " ">>), Open(<<"g", "r", "o", "u", "p">>, <<>>),
       Empty(AnnotationTag,
             Ct(Stamp0) \o <<Attr(AnnotatorName, <<"e", "v", "e">>), Attr(CreatorIdName, <<"c", "9">>),
                             Attr(LayerName, <<"L", "3">>)>>),
       Close(<<"g", "r", "o", "u", "p">>), Raw(<<"\n", " ">>),
       Empty(AnnotationTag,
             Ct(Stamp1) \o <<Attr(AnnotatorName, <<"a", "n", "n">>), Attr(CreatorIdName, <<"c", "1">>),
                             Attr(LayerName, <<"L", "1">>)>>),
       Raw(<<"\n">>), Close(<<"a", "n", "n", "o", "t", "a", "t", "i", "o", "n", "s">>) >>

Docs ==
    { TypicalDoc, NestedDoc,
      Doc(Ct(Stamp0), <<AttrSingleQuoted(CreateTimeName, Stamp1)>>, <<"\n", " ", " ">>, <<"\n", " ">>),
      Doc(<<AttrOnNewLine(CreateTimeName, Stamp0)>>, Ct(Stamp1), <<>>, <<>>),
      Doc(Ct(StampNextDay), Ct(Stamp1), <<"\n", " ", " ">>, <<"\n", " ">>),
      Doc(<<>>, <<>>, <<"\n", " ", " ">>, <<"\n", " ">>),
      Doc(Ct(StampUnknown), Ct(Stamp1), <<"\n", " ", " ">>, <<"\n", " ">>),
      Doc(Ct(StampDateOnly), Ct(Stamp1), <<"\n", " ", " ">>, <<"\n", " ">>),
      Doc(Ct(Stamp0), Ct(StampDateOnly), <<"\n", " ", " ">>, <<"\n", " ">>),
      Doc(Ct(Stamp0), Ct(StampLast), <<"\n", " ", " ">>, <<"\n", " ">>),
      Doc(Ct(Stamp0), Ct(StampNoSuchDay), <<"\n", " ", " ">>, <<"\n", " ">>),
      TruncatedDoc, NoAnnotationDoc, CommentDoc }

\* one row of the ledger, as read_batch_results_csv keeps it
LedgerRow(original, new) ==
    [original_edf_startdate |-> original, original_edf_starttime |-> <<"1", "8", ":", "2", "4", ":", "3", "5">>,
     new_edf_startdate |-> new, new_edf_starttime |-> <<"1", "8", ":", "2", "4", ":", "3", "5">>]

Lookup(original, new) == [id \in {AB12} |-> LedgerRow(original, new)]

EmptyLookup == [id \in {} |-> LedgerRow(<<>>, <<>>)]

Lookups ==
    { Lookup(<<"2", "0", "2", "0", "-", "0", "8", "-", "2", "0">>, <<"2", "0", "2", "1", "-", "0", "6", "-", "1", "6">>),
      Lookup(<<"2", "0", "2", "0", "-", "0", "8", "-", "2", "0">>, <<"2", "0", "2", "0", "-", "0", "8", "-", "1", "0">>),
      Lookup(<<"2", "0", "2", "0", "-", "0", "8", "-", "2", "0">>, <<"2", "0", "2", "0", "-", "0", "8", "-", "2", "0">>),
      Lookup(<<"2", "0", "2", "0", "-", "0", "8", "-", "2", "0">>, <<>>),
      Lookup(<<"2", "0", "2", "0", "-", "8", "-", "2", "0">>, <<"2", "0", "2", "1", "-", "0", "6", "-", "1", "6">>),
      EmptyLookup }

XmlName == <<"P", "R", "V", "-", "0", "0", "1", "-", "A", "B", "1", "2", "-", "4", "5", "-", "a", "n", "n", "o", "t", "a", "t", "i", "o", "n", "s", ".", "x", "m", "l">>

\* the identifier in lower case: update_xml_createtime.py finds no identifier
LowerXmlName == <<"P", "R", "V", "-", "0", "0", "1", "-", "a", "b", "1", "2", "-", "4", "5", "-", "a", "n", "n", "o", "t", "a", "t", "i", "o", "n", "s", ".", "x", "m", "l">>

\* not the name of an annotation file of update_xml.py, yet it holds an identifier
ShortXmlName == <<"P", "R", "V", "-", "0", "0", "1", "-", "A", "B", "1", "2", "-", "4", "5", ".", "x", "m", "l">>

XmlNames == {XmlName, LowerXmlName, ShortXmlName}

IsDoc(files, path) == path \in DOMAIN files => files[path].kind = "doc"

\* one annotation file in the input directory
InitSidecar ==
    /\ stage = "sidecar"
    /\ pc = "idle"
    /\ \E tokens \in Docs :
           fs = [p \in {[dir |-> "in", name |-> XmlName]} |-> [kind |-> "doc", tokens |-> tokens]]
    /\ dirs = {"in", "out"}
    /\ last = NoCall
    /\ ncalls = 0
    /\ run = NoRun

\* a caller runs update_xml_createtimes on a path, with a ledger and an output directory
CallUpdateXmlCreatetimes ==
    /\ stage = "sidecar"
    /\ ncalls < MaxCalls
    /\ \E name \in XmlNames, lookup \in Lookups, output_dir \in {"in", "out", "new"} :
           /\ IsDoc(fs, [dir |-> "in", name |-> name])
           /\ update_xml_createtimes([dir |-> "in", name |-> name], lookup, output_dir)
    /\ ncalls' = ncalls + 1
    /\ UNCHANGED <<stage, pc, run>>

\* a caller runs process_xml_file on a path, with an output directory
CallProcessXmlFile ==
    /\ stage = "sidecar"
    /\ ncalls < MaxCalls
    /\ \E name \in XmlNames, output_dir \in {"in", "out", "new"} :
           /\ IsDoc(fs, [dir |-> "in", name |-> name])
           /\ process_xml_file([dir |-> "in", name |-> name], AB12, output_dir)
    /\ ncalls' = ncalls + 1
    /\ UNCHANGED <<stage, pc, run>>

NextSidecar == CallUpdateXmlCreatetimes \/ CallProcessXmlFile

SpecSidecar == InitSidecar /\ [][NextSidecar]_vars

(***************************************************************************)
(* Claims about update_xml_createtimes and process_xml_file.               *)
(***************************************************************************)
SideCall == last.op = "update_xml_createtimes"

SideId == extract_patient_id_createtime(last.file.name)

\* the identifier resolves and the ledger has it
SidePresent == SideCall /\ SideId.ok /\ SideId.id \in DOMAIN last.lookup

SideRow == last.lookup[SideId.id]

SideTokens == last.pre[last.file].tokens

StampedElement(elem) == HasAttrib(elem, CreateTimeName)

SideStamped == SelectSeq(IterElements(SideTokens), StampedElement)

SideFirst == parse_createtime(GetAttrib(SideStamped[1], CreateTimeName))

\* the document parses and the date of its first createTime is the ledger's
\* original start date
SideFirstDateMatches ==
    /\ last.file \in DOMAIN last.pre
    /\ WellFormed(SideTokens)
    /\ SideStamped # <<>>
    /\ SideFirst.ok
    /\ StrfDate(SideFirst) = SideRow.original_edf_startdate

SideOffset ==
    calculate_date_offset(SideRow.original_edf_startdate, SideRow.new_edf_startdate)

\* every stamp the pattern finds in the text can be moved by the offset
SideShiftable ==
    \A k \in 1..Len(FindAll(createtime_pattern, last.read, 1)) :
        LET old_dt == parse_createtime(
                          StampOfMatch(last.read, FindAll(createtime_pattern, last.read, 1)[k]))
        IN  old_dt.ok => AddDaysKeepTime(old_dt, SideOffset).ok

SideWritten ==
    /\ last.ret.status = "success"
    /\ last.output_file \in DOMAIN fs
    /\ fs[last.output_file].kind = "text"

\* C5 as stated: for a sidecar whose identifier resolves and is in the ledger,
\* the shift is applied (output written, status success) exactly when the date
\* of the first createTime equals the ledger's original start date; otherwise
\* nothing is written and the status is skipped.
C5_AppliedIffDateMatches ==
    SidePresent =>
        IF SideFirstDateMatches THEN SideWritten
        ELSE last.ret.status = "skipped" /\ fs = last.pre

SideApplies ==
    /\ SideFirstDateMatches
    /\ SideOffset # 0
    /\ SideShiftable
    /\ last.output_dir \in dirs

\* C5: for a sidecar whose identifier resolves and is in the ledger, the shift
\* is applied (output written, status success) exactly when the document
\* parses, the date of its first createTime equals the ledger's original start
\* date, the ledger's offset is not zero, every stamp found can be moved by it
\* and the output directory exists; otherwise nothing is written and the status
\* is skipped or failed, and it is never success when the dates differ.
C5_AppliedIffDateMatchesAndOffset ==
    SidePresent =>
        /\ SideApplies => SideWritten
        /\ ~SideApplies => last.ret.status \in {"skipped", "failed"} /\ fs = last.pre
        /\ ~SideFirstDateMatches => last.ret.status # "success"

\* a sidecar with a matching first date and a non-zero offset was shifted and
\* written to the output directory
C5_Witness ==
    /\ SidePresent
    /\ SideApplies
    /\ SideWritten
    /\ last.output_dir = "out"
    /\ fs[last.output_file].text # last.read

\* where the value of attribute j of token i starts in the text of the document
ValueStart(tokens, i, j) ==
    Len(RenderDoc(SubSeq(tokens, 1, i - 1))) + 1 + Len(tokens[i].tag)
        + Len(Flatten([a \in 1..(j - 1) |-> RenderAttr(tokens[i].attrs[a])]))
        + Len(tokens[i].attrs[j].ws) + Len(tokens[i].attrs[j].name)
        + Len(tokens[i].attrs[j].eq) + Len(tokens[i].attrs[j].q) + 1

\* a stamp moved by n days, the time of day kept
MovedStamp(val, n) == format_createtime(AddDaysKeepTime(parse_createtime(val), n))

\* C7 as stated: when update_xml_createtimes returns success, every createTime
\* attribute the document parse finds holds, in the output, its original
\* timestamp plus the computed day offset, the time of day unchanged.
C7_EveryCreateTimeShifted ==
    (SideCall /\ last.ret.status = "success") =>
        \A i \in 1..Len(SideTokens) :
            (SideTokens[i].t = "open") =>
                \A j \in 1..Len(SideTokens[i].attrs) :
                    (SideTokens[i].attrs[j].name = CreateTimeName) =>
                        /\ parse_createtime(SideTokens[i].attrs[j].val).ok
                        /\ SubSeq(fs[last.output_file].text,
                                  ValueStart(SideTokens, i, j),
                                  ValueStart(SideTokens, i, j) + 19)
                               = MovedStamp(SideTokens[i].attrs[j].val, last.ret.date_offset)

Quote == "\""

\* the first quote of text at or after pos; Len(text) + 1 when there is none
RECURSIVE NextQuote(_, _)
NextQuote(text, pos) ==
    IF pos > Len(text) \/ text[pos] = Quote THEN pos ELSE NextQuote(text, pos + 1)

\* out is text with nothing changed but the values of the matches ms from k on
RECURSIVE SameButValues(_, _, _, _, _, _)
SameButValues(text, out, ms, k, tpos, opos) ==
    IF k > Len(ms)
    THEN SubSeq(text, tpos, Len(text)) = SubSeq(out, opos, Len(out))
    ELSE /\ SubSeq(text, tpos, ms[k].start + 11)
                = SubSeq(out, opos, opos + (ms[k].start + 11 - tpos))
         /\ SameButValues(text, out, ms, k + 1, ms[k].end - 1,
                          NextQuote(out, opos + (ms[k].start + 12 - tpos)))

\* timestamp-shift mode: the output is the input but for the values of the
\* createTime spans the pattern matches in the input
ShiftFrame ==
    (SideCall /\ last.ret.status = "success") =>
        SameButValues(last.read, fs[last.output_file].text,
                      FindAll(createtime_pattern, last.read, 1), 1, 1, 1)

DeidCall == last.op = "process_xml_file"

RemovedAttributes == {CreateTimeName, AnnotatorName, CreatorIdName}

\* a span of an attribute to remove starts at pos: where it ends, else 0
AttributeSpanEnd(text, pos) ==
    LET Ends == {MatchFrom(AttributePattern(name), 1, text, pos).end :
                    name \in {n \in RemovedAttributes :
                                 MatchFrom(AttributePattern(n), 1, text, pos).ok}}
    IN  IF Ends = {} THEN 0 ELSE SetMax(Ends)

\* a channels span starts at pos: where it ends, else 0
ChannelsSpanEnd(text, pos) ==
    IF MatchFrom(ChannelsPattern, 1, text, pos).ok
    THEN MatchFrom(ChannelsPattern, 1, text, pos).end ELSE 0

\* the first position from pos on where a span to remove starts, else 0
SpanStart(text, pos) ==
    LET Starts == {p \in pos..Len(text) :
                      AttributeSpanEnd(text, p) > p \/ ChannelsSpanEnd(text, p) > p}
    IN  IF Starts = {} THEN 0 ELSE SetMin(Starts)

\* one pass over text: attribute spans are left out, channels spans are left
\* out with filler in their place, every other character is copied
RECURSIVE WithoutSpans(_, _, _)
WithoutSpans(text, pos, filler) ==
    LET From(p) ==
            IF p = 0 THEN SubSeq(text, pos, Len(text))
            ELSE IF AttributeSpanEnd(text, p) > p
            THEN SubSeq(text, pos, p - 1)
                     \o WithoutSpans(text, AttributeSpanEnd(text, p), filler)
            ELSE SubSeq(text, pos, p - 1) \o filler
                     \o WithoutSpans(text, ChannelsSpanEnd(text, p), filler)
    IN  From(SpanStart(text, pos))

DeidWritten == DeidCall /\ ~last.ret.none

EndsWith(name, suffix) ==
    /\ Len(name) >= Len(suffix)
    /\ SubSeq(name, Len(name) - Len(suffix) + 1, Len(name)) = suffix

\* glob.glob(os.path.join(directory, "*" + suffix)): the paths found
Glob(files, directory, suffix) ==
    {p \in DOMAIN files :
        p.dir = directory /\ EndsWith(p.name, suffix) /\ Head(p.name) # "."}

\* the characters of the names, in the order of their code points
CodePoints == <<" ", "-", ".", "0", "1", "2", "3", "4", "5", "6", "7", "8", "9", "A", "B", "C", "D", "E", "F", "G", "H", "I", "J", "K", "L", "M", "N", "O", "P", "Q", "R", "S", "T", "U", "V", "W", "X", "Y", "Z", "_", "a", "b", "c", "d", "e", "f", "g", "h", "i", "j", "k", "l", "m", "n", "o", "p", "q", "r", "s", "t", "u", "v", "w", "x", "y", "z">>

CodeOf(c) == CHOOSE i \in 1..Len(CodePoints) : CodePoints[i] = c

\* a < b for str
StrLess(a, b) ==
    \/ Len(a) < Len(b) /\ SubSeq(b, 1, Len(a)) = a
    \/ \E i \in 1..Len(a) :
           /\ i <= Len(b)
           /\ SubSeq(a, 1, i - 1) = SubSeq(b, 1, i - 1)
           /\ CodeOf(a[i]) < CodeOf(b[i])

\* sorted(paths) for paths of one directory
RECURSIVE Sorted(_)
Sorted(paths) ==
    LET Then(first) == <<first>> \o Sorted(paths \ {first})
    IN  IF paths = {} THEN <<>>
        ELSE Then(CHOOSE p \in paths : \A q \in paths \ {p} : StrLess(p.name, q.name))

\* the orders glob.glob may return the paths in
Orders(paths) ==
    {order \in [1..Cardinality(paths) -> paths] :
        \A i, j \in 1..Cardinality(paths) : i # j => order[i] # order[j]}

\* a csv table: whether the file exists, whether its header row has the
\* columns the reader asks for, and its rows
Table(exists, columns, rows) == [exists |-> exists, columns |-> columns, rows |-> rows]

\* the index of the last row of rows with this identifier, stripped
LastRowOf(rows, id) ==
    SetMax({i \in 1..Len(rows) : Strip(rows[i].patient_identifier) = id})

RowIds(rows) == {Strip(rows[i].patient_identifier) : i \in 1..Len(rows)}

\* lookup[patient_id] = random_days, were the first value stored to stay
StoreKeepingFirst(lookup, patient_id, random_days) ==
    [id \in DOMAIN lookup \cup {patient_id} |->
        IF id \in DOMAIN lookup THEN lookup[id] ELSE random_days]

\* lookup[patient_id] = random_days
Store(lookup, patient_id, random_days) ==
    [id \in DOMAIN lookup \cup {patient_id} |->
        IF id = patient_id THEN random_days ELSE lookup[id]]

\* the loop of read_csv_lookup over the rows, from row k on
RECURSIVE LookupLoop(_, _, _)
LookupLoop(rows, k, lookup) ==
    LET Parsed(random_days) ==
            IF ~random_days.ok THEN [kind |-> "raise"]
            ELSE LookupLoop(rows, k + 1,
                            Store(lookup, Strip(rows[k].patient_identifier), random_days.v))
    IN  IF k > Len(rows) THEN [kind |-> "ok", lookup |-> lookup]
        ELSE Parsed(ParseInt(rows[k].random_number))

\* read_csv_lookup of modify_edf_dates.py:
\*   kind "exit"   sys.exit(1): no file, or a row without a required column
\*   kind "raise"  int() raises ValueError, which nothing catches
\*   kind "ok"     lookup is the mapping
read_csv_lookup(table) ==
    IF ~table.exists THEN [kind |-> "exit"]
    ELSE IF table.rows # <<>> /\ ~table.columns THEN [kind |-> "exit"]
    ELSE LookupLoop(table.rows, 1, [id \in {} |-> 0])

\* read_edf_csv of update_xml.py: the lookup and the rows
read_edf_csv(table) ==
    IF ~table.exists THEN [kind |-> "exit"]
    ELSE IF table.rows # <<>> /\ ~table.columns THEN [kind |-> "exit"]
    ELSE [kind |-> "ok", csv_data |-> table.rows,
          lookup |-> [id \in RowIds(table.rows) |->
                         [original_date |-> table.rows[LastRowOf(table.rows, id)].original_date,
                          new_date |-> table.rows[LastRowOf(table.rows, id)].new_date]]]

\* read_batch_results_csv of update_xml_createtime.py: the lookup and the rows
read_batch_results_csv(table) ==
    LET Kept(row) ==
            [original_edf_startdate |-> row.original_edf_startdate,
             original_edf_starttime |-> row.original_edf_starttime,
             new_edf_startdate |-> row.new_edf_startdate,
             new_edf_starttime |-> row.new_edf_starttime]
    IN  IF ~table.exists THEN [kind |-> "exit"]
        ELSE IF table.rows # <<>> /\ ~table.columns THEN [kind |-> "exit"]
        ELSE [kind |-> "ok", csv_data |-> table.rows,
              lookup |-> [id \in RowIds(table.rows) |->
                             Kept(table.rows[LastRowOf(table.rows, id)])]]

\* r'PRV-[^-]+-([^-]+)-[^-]+\.edf'
EdfIdPattern ==
    Lits(<<"P", "R", "V", "-">>) \o <<Cls("notdash", "+", FALSE)>> \o Lits(<<"-">>)
        \o <<Cls("notdash", "+", TRUE)>> \o Lits(<<"-">>)
        \o <<Cls("notdash", "+", FALSE)>> \o Lits(<<".", "e", "d", "f">>)

\* extract_patient_id_from_filename of modify_edf_dates.py
extract_patient_id_edf(filename) ==
    LET Group(m) == IF m.ok THEN [ok |-> TRUE, id |-> Strip(m.grp)] ELSE Fail
    IN  Group(Search(EdfIdPattern, filename, 1))

\* r'PRV-[^-]+-([^-]+)-[^-]+-annotations\.xml'
XmlIdPattern ==
    Lits(<<"P", "R", "V", "-">>) \o <<Cls("notdash", "+", FALSE)>> \o Lits(<<"-">>)
        \o <<Cls("notdash", "+", TRUE)>> \o Lits(<<"-">>)
        \o <<Cls("notdash", "+", FALSE)>> \o Lits(<<"-", "a", "n", "n", "o", "t", "a", "t", "i", "o", "n", "s", ".", "x", "m", "l">>)

\* the resolver of update_xml, were the pattern to end before -annotations.xml
extract_patient_id_xml_no_suffix(filename) ==
    LET Group(m) == IF m.ok THEN [ok |-> TRUE, id |-> Strip(m.grp)] ELSE Fail
    IN  Group(Search(SubSeq(XmlIdPattern, 1, 9), filename, 1))

\* extract_patient_id_from_filename of update_xml.py
extract_patient_id_xml(filename) ==
    LET Group(m) == IF m.ok THEN [ok |-> TRUE, id |-> Strip(m.grp)] ELSE Fail
    IN  Group(Search(XmlIdPattern, filename, 1))

(***************************************************************************)
(* modify_edf_dates.py: main and process_directory.                        *)
(* A run ends by "return", by "exit" (sys.exit(1)) or by "raise" (an       *)
(* exception nothing catches).  visited lists the files the loop reached,  *)
(* calls the per-file operations it made.                                  *)
(***************************************************************************)
CsvFile(fieldnames, rows) == [kind |-> "csv", fieldnames |-> fieldnames, rows |-> rows]

RunStart(files, existing) ==
    [exit |-> "return", fs |-> files, dirs |-> existing, visited |-> <<>>,
     calls |-> <<>>, results |-> <<>>]

RunStopped(files, existing, exit) == [RunStart(files, existing) EXCEPT !.exit = exit]

\* the loop of process_directory from file k on
RECURSIVE EdfLoop(_, _, _, _, _)
EdfLoop(edf_files, k, lookup, output_dir, acc) ==
    LET Rest(a) == EdfLoop(edf_files, k + 1, lookup, output_dir, a)
        Visit(a) == [a EXCEPT !.visited = Append(@, edf_files[k])]
        Called(a, patient_id, shift) ==
            [a EXCEPT !.calls = Append(@, [op |-> "modify_edf_header",
                                           file |-> edf_files[k],
                                           patient_id |-> patient_id,
                                           random_days |-> lookup[patient_id],
                                           ret |-> shift.kind])]
        Result(patient_id, shift) ==
            [patient_identifier |-> patient_id,
             original_date |-> shift.original_date,
             new_date |-> shift.new_date,
             random_days_offset |-> lookup[patient_id],
             output_file |-> OutputPath(edf_files[k], output_dir)]
        Written(a, patient_id, shift) ==
            [a EXCEPT !.fs = WriteFile(@, OutputPath(edf_files[k], output_dir), shift.content),
                      !.dirs = @ \cup {output_dir},
                      !.results = Append(@, Result(patient_id, shift))]
        Shifted(a, patient_id, shift) ==
            CASE shift.kind = "raise" -> [a EXCEPT !.exit = "raise"]
              [] shift.kind = "none" -> Rest(a)
              [] shift.kind = "ok" -> Rest(Written(a, patient_id, shift))
        Modify(patient_id, shift) ==
            Shifted(Called(Visit(acc), patient_id, shift), patient_id, shift)
        Resolved(id) ==
            IF ~id.ok THEN Rest(Visit(acc))
            ELSE IF id.id \notin DOMAIN lookup THEN Rest(Visit(acc))
            ELSE Modify(id.id, HeaderShift(acc.fs[edf_files[k]], lookup[id.id]))
    IN  IF k > Len(edf_files) THEN acc
        ELSE Resolved(extract_patient_id_edf(edf_files[k].name))

DatetimeEdfFields == <<"patient_identifier", "original_date", "new_date">>

\* process_directory(input_dir, random_csv, output_dir, output_csv)
process_directory_edf(files, existing, random_csv, input_dir, output_dir, output_csv) ==
    LET Row(result) ==
            [patient_identifier |-> result.patient_identifier,
             original_date |-> result.original_date,
             new_date |-> result.new_date]
        Report(acc) ==
            IF acc.exit = "raise" \/ acc.results = <<>> THEN acc
            ELSE IF output_csv.dir \notin acc.dirs THEN [acc EXCEPT !.exit = "raise"]
            ELSE [acc EXCEPT !.fs =
                     WriteFile(@, output_csv,
                               CsvFile(DatetimeEdfFields,
                                       [i \in 1..Len(acc.results) |-> Row(acc.results[i])]))]
        Found(lookup, edf_files) ==
            IF edf_files = {} THEN RunStart(files, existing)
            ELSE Report(EdfLoop(Sorted(edf_files), 1, lookup, output_dir,
                                RunStart(files, existing)))
        Loaded(read) ==
            IF read.kind # "ok" THEN RunStopped(files, existing, read.kind)
            ELSE Found(read.lookup, Glob(files, input_dir, <<".", "e", "d", "f">>))
    IN  Loaded(read_csv_lookup(random_csv))

\* main of modify_edf_dates.py with its four arguments
main_modify_edf_dates(files, existing, random_csv, input_dir, output_dir, output_csv) ==
    IF input_dir \notin existing THEN RunStopped(files, existing, "exit")
    ELSE IF ~random_csv.exists THEN RunStopped(files, existing, "exit")
    ELSE process_directory_edf(files, existing, random_csv, input_dir, output_dir, output_csv)

(***************************************************************************)
(* batch_process_edf.py: main.                                             *)
(***************************************************************************)
\* find_edf_files(directory)
find_edf_files(files, directory) ==
    {f \in Glob(files, directory, <<".", "e", "d", "f">>) : ~EndsWith(f.name, <<"_", "m", "o", "d", "i", "f", "i", "e", "d", ".", "e", "d", "f">>)}

\* what can become of the child process of run_modify_edf_script: it exits
\* (with the usage error of modify_edf_dates.py, which takes no positional
\* argument), it is not done after 60 seconds, or it cannot be started
ChildOutcomes == {"exits", "expires", "fails to start"}

\* run_modify_edf_script, were TimeoutExpired handled as any other exception
run_modify_edf_script_no_timeout(edf_file, child) ==
    [edf_file |-> edf_file.name, patient_identifier |-> <<>>,
     original_edf_startdate |-> <<>>, original_edf_starttime |-> <<>>,
     new_edf_startdate |-> <<>>, new_edf_starttime |-> <<>>,
     random_days_offset |-> <<>>,
     status |-> IF child = "exits" THEN "failed" ELSE "error",
     error_message |-> IF child = "exits" THEN "usage: modify_edf_dates.py" ELSE "str(e)"]

\* run_modify_edf_script(csv_file, edf_file, output_dir): the record it returns
run_modify_edf_script(edf_file, child) ==
    [edf_file |-> edf_file.name, patient_identifier |-> <<>>,
     original_edf_startdate |-> <<>>, original_edf_starttime |-> <<>>,
     new_edf_startdate |-> <<>>, new_edf_starttime |-> <<>>,
     random_days_offset |-> <<>>,
     status |-> CASE child = "exits" -> "failed"
                  [] child = "expires" -> "timeout"
                  [] child = "fails to start" -> "error",
     error_message |-> CASE child = "exits" -> "usage: modify_edf_dates.py"
                         [] child = "expires" -> "Process timed out after 60 seconds"
                         [] child = "fails to start" -> "str(e)"]

BatchFields ==
    <<"edf_file", "patient_identifier", "original_edf_startdate",
      "original_edf_starttime", "new_edf_startdate", "new_edf_starttime",
      "random_days_offset", "status", "error_message">>

ModifiedFiles(edf_directory) == "modified_files"

\* main of batch_process_edf.py: csv_file, edf_directory, output_csv; the
\* files in the order glob gave them, children[i] what becomes of child i
main_batch_process_edf(files, existing, csv_file, edf_directory, output_csv, order, children) ==
    LET Results == [i \in 1..Len(order) |-> run_modify_edf_script(order[i], children[i])]
        Calls == [i \in 1..Len(order) |->
                     [op |-> "run_modify_edf_script", file |-> order[i],
                      child |-> children[i], ret |-> Results[i].status]]
        Made == existing \cup {ModifiedFiles(edf_directory)}
    IN  IF ~csv_file.exists THEN RunStopped(files, existing, "exit")
        ELSE IF edf_directory \notin existing THEN RunStopped(files, existing, "exit")
        ELSE IF order = <<>> THEN RunStopped(files, Made, "exit")
        ELSE IF output_csv.dir \notin Made
        THEN [RunStart(files, Made) EXCEPT !.exit = "raise", !.visited = order,
                                           !.calls = Calls, !.results = Results]
        ELSE [RunStart(files, Made) EXCEPT
                 !.visited = order, !.calls = Calls, !.results = Results,
                 !.fs = WriteFile(@, output_csv, CsvFile(BatchFields, Results))]

(***************************************************************************)
(* update_xml.py: main and process_directory.                              *)
(***************************************************************************)
\* the loop of process_directory from file k on; results holds what
\* xml_metadata was given, in order
RECURSIVE XmlLoop(_, _, _, _, _)
XmlLoop(xml_files, k, lookup, output_dir, acc) ==
    LET Rest(a) == XmlLoop(xml_files, k + 1, lookup, output_dir, a)
        Visit(a) == [a EXCEPT !.visited = Append(@, xml_files[k])]
        Called(a, patient_id, result) ==
            [a EXCEPT !.calls = Append(@, [op |-> "process_xml_file",
                                           file |-> xml_files[k],
                                           patient_id |-> patient_id,
                                           ret |-> IF result.ret.none THEN "none" ELSE "ok"]),
                      !.fs = DeidWrite(@, xml_files[k], output_dir, result),
                      !.dirs = IF result.wrote THEN @ \cup {output_dir} ELSE @,
                      !.results = IF result.ret.none THEN @
                                  ELSE Append(@, [patient_identifier |-> patient_id,
                                                  metadata |-> result.ret])]
        Resolved(id) ==
            IF ~id.ok THEN Rest(Visit(acc))
            ELSE IF id.id \notin DOMAIN lookup THEN Rest(Visit(acc))
            ELSE Rest(Called(Visit(acc), id.id,
                             DeidResult(acc.fs, xml_files[k], id.id, output_dir)))
    IN  IF k > Len(xml_files) THEN acc
        ELSE Resolved(extract_patient_id_xml(xml_files[k].name))

ValidationFields == <<"patient_identifier", "annotator", "creatorId", "more_than_one_layer">>

\* xml_metadata[id], given that it has one: what was stored last
MetadataOf(results, id) ==
    results[SetMax({i \in 1..Len(results) : results[i].patient_identifier = id})].metadata

HasMetadata(results, id) == \E i \in 1..Len(results) : results[i].patient_identifier = id

\* process_directory(input_dir, edf_csv, output_dir, output_csv)
process_directory_xml(files, existing, edf_csv, input_dir, output_dir, output_csv) ==
    LET Row(results, row) ==
            IF HasMetadata(results, row.patient_identifier)
            THEN [patient_identifier |-> row.patient_identifier,
                  annotator |-> MetadataOf(results, row.patient_identifier).annotator,
                  creatorId |-> MetadataOf(results, row.patient_identifier).creatorId,
                  more_than_one_layer |->
                      MetadataOf(results, row.patient_identifier).more_than_one_layer]
            ELSE [patient_identifier |-> row.patient_identifier,
                  annotator |-> <<>>, creatorId |-> <<>>, more_than_one_layer |-> ""]
        Report(csv_data, acc) ==
            IF output_csv.dir \notin acc.dirs THEN [acc EXCEPT !.exit = "raise"]
            ELSE [acc EXCEPT !.fs =
                     WriteFile(@, output_csv,
                               CsvFile(ValidationFields,
                                       [i \in 1..Len(csv_data) |->
                                           Row(acc.results, csv_data[i])]))]
        Found(read, xml_files) ==
            IF xml_files = {} THEN RunStart(files, existing)
            ELSE Report(read.csv_data,
                        XmlLoop(Sorted(xml_files), 1, read.lookup, output_dir,
                                RunStart(files, existing)))
        Loaded(read) ==
            IF read.kind # "ok" THEN RunStopped(files, existing, read.kind)
            ELSE Found(read, Glob(files, input_dir, <<"-", "a", "n", "n", "o", "t", "a", "t", "i", "o", "n", "s", ".", "x", "m", "l">>))
    IN  Loaded(read_edf_csv(edf_csv))

\* main of update_xml.py with its four arguments
main_update_xml(files, existing, edf_csv, input_dir, output_dir, output_csv) ==
    IF input_dir \notin existing THEN RunStopped(files, existing, "exit")
    ELSE IF ~edf_csv.exists THEN RunStopped(files, existing, "exit")
    ELSE process_directory_xml(files, existing, edf_csv, input_dir, output_dir, output_csv)

(***************************************************************************)
(* update_xml_createtime.py: main.                                         *)
(***************************************************************************)
BlankInfo ==
    [original_xml_createdate |-> <<>>, original_xml_createtime |-> <<>>,
     new_xml_createdate |-> <<>>, new_xml_createtime |-> <<>>]

\* get_xml_createtime_info(xml_file, lookup)
get_xml_createtime_info(files, xml_file, lookup) ==
    LET Info(original_dt, new_dt) ==
            IF ~new_dt.ok THEN BlankInfo
            ELSE [original_xml_createdate |-> StrfDate(original_dt),
                  original_xml_createtime |-> StrfTime(original_dt),
                  new_xml_createdate |-> StrfDate(new_dt),
                  new_xml_createtime |-> StrfTime(new_dt)]
        Parsed(original_dt, edf_data) ==
            IF ~original_dt.ok THEN BlankInfo
            ELSE Info(original_dt,
                      AddDaysKeepTime(original_dt,
                          calculate_date_offset(edf_data.original_edf_startdate,
                                                edf_data.new_edf_startdate)))
        First(stamped, edf_data) ==
            IF stamped = <<>> THEN BlankInfo
            ELSE IF GetAttrib(stamped[1], CreateTimeName) = <<>> THEN BlankInfo
            ELSE Parsed(parse_createtime(GetAttrib(stamped[1], CreateTimeName)), edf_data)
        HasCreateTime(elem) == HasAttrib(elem, CreateTimeName)
        Resolved(id) ==
            IF ~id.ok \/ id.id = <<>> THEN BlankInfo
            ELSE IF id.id \notin DOMAIN lookup THEN BlankInfo
            ELSE IF ~WellFormed(files[xml_file].tokens) THEN BlankInfo
            ELSE First(SelectSeq(IterElements(files[xml_file].tokens), HasCreateTime),
                       lookup[id.id])
    IN  Resolved(extract_patient_id_createtime(xml_file.name))

\* the second loop of main from file k on
RECURSIVE CreatetimeLoop(_, _, _, _, _)
CreatetimeLoop(xml_files, k, lookup, output_directory, acc) ==
    LET Called(result) ==
            [acc EXCEPT !.visited = Append(@, xml_files[k]),
                        !.calls = Append(@, [op |-> "update_xml_createtimes",
                                             file |-> xml_files[k],
                                             ret |-> result.ret.status]),
                        !.fs = ShiftWrite(@, xml_files[k], output_directory, result),
                        !.results = Append(@, [xml_file |-> xml_files[k].name,
                                               status |-> result.ret.status])]
    IN  IF k > Len(xml_files) THEN acc
        ELSE CreatetimeLoop(xml_files, k + 1, lookup, output_directory,
                 Called(ShiftResult(acc.fs, acc.dirs, xml_files[k], lookup,
                                    output_directory)))

\* find_xml_files(directory)
find_xml_files(files, directory) == Glob(files, directory, <<"-", "a", "n", "n", "o", "t", "a", "t", "i", "o", "n", "s", ".", "x", "m", "l">>)

\* write_updated_csv: the rows; info[i] is what the first loop got for file i
UpdatedRows(csv_data, xml_files, info) ==
    LET Ids == [i \in 1..Len(xml_files) |->
                   extract_patient_id_createtime(xml_files[i].name)]
        Has(id) == \E i \in 1..Len(xml_files) : Ids[i].ok /\ Ids[i].id = id
        Data(id) ==
            info[SetMax({i \in 1..Len(xml_files) : Ids[i].ok /\ Ids[i].id = id})]
    IN  [r \in 1..Len(csv_data) |->
            [row |-> csv_data[r],
             xml |-> IF Has(csv_data[r].patient_identifier)
                     THEN Data(csv_data[r].patient_identifier) ELSE BlankInfo]]

UpdatedFields ==
    <<"edf_file", "patient_identifier", "original_edf_startdate",
      "original_edf_starttime", "new_edf_startdate", "new_edf_starttime",
      "original_xml_createdate", "original_xml_createtime",
      "new_xml_createdate", "new_xml_createtime">>

\* main of update_xml_createtime.py: csv_file, xml_directory, output_directory;
\* order is the order glob gave the files in, updated_csv_file the report.
\* csv_file.extra: the rows have columns write_updated_csv has no field for,
\* and DictWriter raises ValueError after the header line is written.
main_update_xml_createtime(files, existing, csv_file, xml_directory, output_directory, updated_csv_file, order) ==
    LET Made == existing \cup {output_directory}
        Report(csv_data, info, acc) ==
            IF csv_data # <<>> /\ csv_file.extra
            THEN [acc EXCEPT !.exit = "raise",
                             !.fs = WriteFile(@, updated_csv_file,
                                              CsvFile(UpdatedFields, <<>>))]
            ELSE [acc EXCEPT !.fs =
                     WriteFile(@, updated_csv_file,
                               CsvFile(UpdatedFields, UpdatedRows(csv_data, order, info)))]
        Loaded(read) ==
            IF read.kind # "ok" THEN RunStopped(files, Made, read.kind)
            ELSE Report(read.csv_data,
                        [i \in 1..Len(order) |->
                            get_xml_createtime_info(files, order[i], read.lookup)],
                        CreatetimeLoop(order, 1, read.lookup, output_directory,
                                       RunStart(files, Made)))
    IN  IF ~csv_file.exists THEN RunStopped(files, existing, "exit")
        ELSE IF xml_directory \notin existing THEN RunStopped(files, existing, "exit")
        ELSE IF order = <<>> THEN RunStopped(files, Made, "exit")
        ELSE Loaded(read_batch_results_csv(csv_file))

(***************************************************************************)
(* Directories, tables and runs of the four scripts.                       *)
(***************************************************************************)
ZZ99 == <<"Z", "Z", "9", "9">>

NoIdEdfName == <<"r", "e", "c", "o", "r", "d", "i", "n", "g", ".", "e", "d", "f">>

HeaderGood == MkHeader(RecCanonical, <<"0", "1", ".", "0", "1", ".", "2", "0">>, GoodTime, HeaderMin)

HeaderShort == MkHeader(RecCanonical, <<"0", "1", ".", "0", "1", ".", "2", "0">>, GoodTime, HeaderMin - 1)

HeaderBadDate == MkHeader(RecCanonical, <<"3", "1", ".", "0", "2", ".", "2", "0">>, GoodTime, HeaderMin)

InDir(name) == [dir |-> "in", name |-> name]

OneFile(name, content) == [p \in {InDir(name)} |-> content]

TwoFiles(name1, content1, name2, content2) ==
    [p \in {InDir(name1), InDir(name2)} |-> IF p = InDir(name1) THEN content1 ELSE content2]

NoFiles == [p \in {} |-> <<>>]

EdfDirectories ==
    {NoFiles}
        \cup {OneFile(EdfName, h) : h \in {HeaderGood, HeaderShort, HeaderBadDate}}
        \cup {TwoFiles(EdfName, h, name, HeaderGood) :
                  h \in {HeaderGood, HeaderShort, HeaderBadDate},
                  name \in {OtherEdfName, NoIdEdfName}}

OffsetRow(id, number) == [patient_identifier |-> id, random_number |-> number]

OffsetTables ==
    { Table(FALSE, FALSE, <<>>),
      Table(TRUE, FALSE, <<>>),
      Table(TRUE, FALSE, <<OffsetRow(AB12, <<"3", "0", "0">>)>>),
      Table(TRUE, TRUE, <<OffsetRow(AB12, <<"3", "e", "2">>), OffsetRow(ZZ99, <<"3", "0", "0">>)>>),
      Table(TRUE, TRUE, <<OffsetRow(AB12, <<"3", "0", "0">>), OffsetRow(ZZ99, <<"-", "1", "0">>)>>),
      Table(TRUE, TRUE, <<OffsetRow(AB12, <<"3", "0", "0", "0", "0", "0", "0">>), OffsetRow(ZZ99, <<"3", "0", "0">>)>>),
      Table(TRUE, TRUE, <<OffsetRow(AB12, <<"0">>)>>),
      Table(TRUE, TRUE, <<OffsetRow(ZZ99, <<"3", "0", "0">>)>>),
      Table(TRUE, TRUE, <<OffsetRow(AB12, <<"1">>), OffsetRow(<<" ", "A", "B", "1", "2", " ">>, <<"3", "0", "0">>)>>) }

OtherXmlName == <<"P", "R", "V", "-", "0", "0", "1", "-", "Z", "Z", "9", "9", "-", "4", "5", "-", "a", "n", "n", "o", "t", "a", "t", "i", "o", "n", "s", ".", "x", "m", "l">>

\* a second annotation file of the same patient
SecondXmlName == <<"P", "R", "V", "-", "0", "0", "2", "-", "A", "B", "1", "2", "-", "4", "6", "-", "a", "n", "n", "o", "t", "a", "t", "i", "o", "n", "s", ".", "x", "m", "l">>

DocFile(tokens) == [kind |-> "doc", tokens |-> tokens]

NextDayDoc == Doc(Ct(StampNextDay), Ct(Stamp1), <<"\n", " ", " ">>, <<"\n", " ">>)

\* one annotation, by another annotator, on one layer
SoloDoc ==
    << Open(<<"a", "n", "n", "o", "t", "a", "t", "i", "o", "n", "s">>, <<>>), Raw(<<"\n", " ">>),
       Empty(AnnotationTag,
             Ct(Stamp0) \o <<Attr(AnnotatorName, <<"b", "o", "b">>), Attr(CreatorIdName, <<"c", "2">>),
                             Attr(LayerName, <<"L", "1">>)>>),
       Raw(<<"\n">>), Close(<<"a", "n", "n", "o", "t", "a", "t", "i", "o", "n", "s">>) >>

XmlDirectories ==
    {NoFiles}
        \cup {OneFile(XmlName, DocFile(d)) : d \in {TypicalDoc, TruncatedDoc, NextDayDoc}}
        \cup {OneFile(LowerXmlName, DocFile(TypicalDoc))}
        \cup {TwoFiles(XmlName, DocFile(d), name, DocFile(e)) :
                  d \in {TypicalDoc, TruncatedDoc, NextDayDoc},
                  name \in {OtherXmlName, SecondXmlName},
                  e \in {TypicalDoc, NoAnnotationDoc, SoloDoc}}

DateRow(id, original, new) ==
    [patient_identifier |-> id, original_date |-> original, new_date |-> new]

EdfLedgers ==
    { Table(FALSE, FALSE, <<>>),
      Table(TRUE, FALSE, <<>>),
      Table(TRUE, FALSE, <<DateRow(AB12, <<"2", "0", "2", "0", "-", "0", "8", "-", "2", "0">>, <<"2", "0", "2", "1", "-", "0", "6", "-", "1", "6">>)>>),
      Table(TRUE, TRUE, <<DateRow(AB12, <<"2", "0", "2", "0", "-", "0", "8", "-", "2", "0">>, <<"2", "0", "2", "1", "-", "0", "6", "-", "1", "6">>)>>),
      Table(TRUE, TRUE, <<DateRow(ZZ99, <<"2", "0", "2", "0", "-", "0", "8", "-", "2", "0">>, <<"2", "0", "2", "1", "-", "0", "6", "-", "1", "6">>),
                          DateRow(<<"A", "B", "1", "2", " ">>, <<"2", "0", "2", "0", "-", "0", "8", "-", "2", "0">>, <<"2", "0", "2", "1", "-", "0", "6", "-", "1", "6">>)>>) }

BatchRow(id, original, new) ==
    [edf_file |-> id \o <<".", "e", "d", "f">>, patient_identifier |-> id] @@ LedgerRow(original, new)

BatchTable(exists, columns, rows, extra) == Table(exists, columns, rows) @@ [extra |-> extra]

BatchLedgers ==
    { BatchTable(FALSE, FALSE, <<>>, FALSE),
      BatchTable(TRUE, FALSE, <<>>, FALSE),
      BatchTable(TRUE, FALSE, <<BatchRow(AB12, <<"2", "0", "2", "0", "-", "0", "8", "-", "2", "0">>, <<"2", "0", "2", "1", "-", "0", "6", "-", "1", "6">>)>>, FALSE) }
        \cup { BatchTable(TRUE, TRUE, rows, extra) :
                   rows \in { <<BatchRow(AB12, <<"2", "0", "2", "0", "-", "0", "8", "-", "2", "0">>, <<"2", "0", "2", "1", "-", "0", "6", "-", "1", "6">>)>>,
                              <<BatchRow(AB12, <<"2", "0", "2", "0", "-", "0", "8", "-", "2", "0">>, <<"2", "0", "2", "0", "-", "0", "8", "-", "2", "0">>),
                                BatchRow(ZZ99, <<"2", "0", "2", "0", "-", "0", "8", "-", "2", "0">>, <<"2", "0", "2", "0", "-", "0", "8", "-", "1", "0">>)>> },
                   extra \in BOOLEAN }

Scripts == {"modify_edf_dates", "update_xml", "update_xml_createtime", "batch_process_edf"}

ReportPath(name) == [dir |-> "reports", name |-> name]

\* a directory of inputs, a table, and the script about to run
InitRun ==
    /\ stage \in Scripts
    /\ pc = "idle"
    /\ fs \in IF stage \in {"modify_edf_dates", "batch_process_edf"}
              THEN EdfDirectories ELSE XmlDirectories
    /\ dirs = {"in", "reports"}
    /\ last = NoCall
    /\ ncalls = 0
    /\ \E table \in CASE stage \in {"modify_edf_dates", "batch_process_edf"} -> OffsetTables
                      [] stage = "update_xml" -> EdfLedgers
                      [] stage = "update_xml_createtime" -> BatchLedgers :
           run = [kind |-> "run", table |-> table]

\* the run is over: what it left and what it did
Ran(result) ==
    /\ last' = [op |-> "main", script |-> stage, exit |-> result.exit,
                visited |-> result.visited, calls |-> result.calls,
                results |-> result.results, pre |-> fs, predirs |-> dirs]
    /\ fs' = result.fs
    /\ dirs' = result.dirs
    /\ pc' = "done"
    /\ ncalls' = ncalls + 1
    /\ UNCHANGED <<stage, run>>

MainModifyEdfDates ==
    /\ stage = "modify_edf_dates"
    /\ ncalls < MaxCalls
    /\ Ran(main_modify_edf_dates(fs, dirs, run.table, "in", "out",
                                 ReportPath(<<"d", "a", "t", "e", "t", "i", "m", "e", "_", "e", "d", "f", ".", "c", "s", "v">>)))

MainUpdateXml ==
    /\ stage = "update_xml"
    /\ ncalls < MaxCalls
    /\ Ran(main_update_xml(fs, dirs, run.table, "in", "out",
                           ReportPath(<<"v", "a", "l", "i", "d", "a", "t", "i", "o", "n", "_", "e", "d", "f", "_", "x", "m", "l", ".", "c", "s", "v">>)))

MainUpdateXmlCreatetime ==
    /\ stage = "update_xml_createtime"
    /\ ncalls < MaxCalls
    /\ \E order \in Orders(find_xml_files(fs, "in")) :
           Ran(main_update_xml_createtime(fs, dirs, run.table, "in", "modified_xml",
                                          ReportPath(<<"b", "a", "t", "c", "h", "_", "p", "r", "o", "c", "e", "s", "s", "i", "n", "g", "_", "r", "e", "s", "u", "l", "t", "s", "_", "x", "m", "l", ".", "c", "s", "v">>),
                                          order))

MainBatchProcessEdf ==
    /\ stage = "batch_process_edf"
    /\ ncalls < MaxCalls
    /\ \E order \in Orders(find_edf_files(fs, "in")) :
           \E children \in [1..Len(order) -> ChildOutcomes] :
               Ran(main_batch_process_edf(fs, dirs, run.table, "in",
                                          ReportPath(<<"b", "a", "t", "c", "h", "_", "p", "r", "o", "c", "e", "s", "s", "i", "n", "g", "_", "r", "e", "s", "u", "l", "t", "s", ".", "c", "s", "v">>),
                                          order, children))

NextRun ==
    \/ MainModifyEdfDates
    \/ MainUpdateXml
    \/ MainUpdateXmlCreatetime
    \/ MainBatchProcessEdf

SpecRun == InitRun /\ [][NextRun]_vars

(***************************************************************************)
(* Claims about the runs.                                                  *)
(***************************************************************************)
RunOver == last.op = "main"

\* the table is missing, lacks a required column in a row it holds, or holds
\* an offset that is not an integer
UnusableTable ==
    \/ ~run.table.exists
    \/ ~run.table.columns /\ run.table.rows # <<>>
    \/ /\ last.script \in {"modify_edf_dates", "batch_process_edf"}
       /\ \E i \in 1..Len(run.table.rows) : ~ParseInt(run.table.rows[i].random_number).ok

\* C9 as stated: with the offset table or ledger missing, lacking a required
\* column or malformed, the run of any of the four scripts stops before any
\* file is processed: no per-file operation is made, no file is written and no
\* directory is created.
C9_UnusableTableStopsBeforeAnyFile ==
    (RunOver /\ UnusableTable) =>
        /\ last.calls = <<>>
        /\ fs = last.pre
        /\ dirs = last.predirs

EdfRunOver == RunOver /\ last.script = "modify_edf_dates"

EdfBatch == Glob(last.pre, "in", <<".", "e", "d", "f">>)

EdfReport == ReportPath(<<"d", "a", "t", "e", "t", "i", "m", "e", "_", "e", "d", "f", ".", "c", "s", "v">>)

\* C10 as stated: in a run of modify_edf_dates over a batch, with the offset
\* table loaded, no file's failure stops the run: the run returns, the loop
\* reaches every file of the batch in order, and the written report has a
\* record for every file, the failing ones included.
C10_FailureNeverStopsRun ==
    (EdfRunOver /\ read_csv_lookup(run.table).kind = "ok" /\ EdfBatch # {}) =>
        /\ last.exit = "return"
        /\ last.visited = Sorted(EdfBatch)
        /\ EdfReport \in DOMAIN fs
        /\ Len(fs[EdfReport].rows) = Cardinality(EdfBatch)

XmlRunOver == RunOver /\ last.script = "update_xml"

XmlReport == ReportPath(<<"v", "a", "l", "i", "d", "a", "t", "i", "o", "n", "_", "e", "d", "f", "_", "x", "m", "l", ".", "c", "s", "v">>)

CtRunOver == RunOver /\ last.script = "update_xml_createtime"

CtReport == ReportPath(<<"b", "a", "t", "c", "h", "_", "p", "r", "o", "c", "e", "s", "s", "i", "n", "g", "_", "r", "e", "s", "u", "l", "t", "s", "_", "x", "m", "l", ".", "c", "s", "v">>)

\* the record the first file of the identifier stored in xml_metadata
FirstStored(results, id) ==
    results[SetMin({i \in 1..Len(results) : results[i].patient_identifier = id})].metadata

\* the files of the run, in its order, that resolve to the identifier
FilesOf(visited, id) ==
    {i \in 1..Len(visited) :
        /\ extract_patient_id_createtime(visited[i].name).ok
        /\ extract_patient_id_createtime(visited[i].name).id = id}

\* what the first file of the identifier stored in xml_createtime_data
FirstInfo(visited, id) ==
    get_xml_createtime_info(last.pre, visited[SetMin(FilesOf(visited, id))],
                            read_batch_results_csv(run.table).lookup)

\* the report row shows the record the first file of its identifier stored
XmlRowKeepsFirst(row) ==
    HasMetadata(last.results, row.patient_identifier) =>
        /\ row.annotator = FirstStored(last.results, row.patient_identifier).annotator
        /\ row.creatorId = FirstStored(last.results, row.patient_identifier).creatorId
        /\ row.more_than_one_layer =
               FirstStored(last.results, row.patient_identifier).more_than_one_layer

CtRowKeepsFirst(row) ==
    FilesOf(last.visited, row.row.patient_identifier) # {} =>
        row.xml = FirstInfo(last.visited, row.row.patient_identifier)

\* C11 as stated: within one run a record stored for an identifier is never
\* replaced by a later file of the same identifier (the report shows what the
\* first such file stored, in update_xml and in update_xml_createtime), and
\* the ledger holds exactly one record for each file that gave one (the
\* results list of modify_edf_dates, xml_metadata of update_xml).
C11_StoredRecordNeverReplaced ==
    /\ (XmlRunOver /\ XmlReport \in DOMAIN fs) =>
           /\ \A r \in 1..Len(fs[XmlReport].rows) : XmlRowKeepsFirst(fs[XmlReport].rows[r])
           /\ Cardinality({last.results[i].patient_identifier : i \in 1..Len(last.results)})
                  = Len(last.results)
    /\ (CtRunOver /\ CtReport \in DOMAIN fs) =>
           \A r \in 1..Len(fs[CtReport].rows) : CtRowKeepsFirst(fs[CtReport].rows[r])
    /\ EdfRunOver =>
           Len(last.results)
               = Cardinality({i \in 1..Len(last.calls) : last.calls[i].ret = "ok"})

\* the report of update_xml is the ledger's rows in order, with the columns
\* of the annotation stage blank where no file gave a record
XmlMergeIsOuterJoin ==
    /\ last.exit = "return"
    /\ XmlReport \in DOMAIN fs
    /\ Len(fs[XmlReport].rows) = Len(run.table.rows)
    /\ \A r \in 1..Len(run.table.rows) :
           /\ fs[XmlReport].rows[r].patient_identifier = run.table.rows[r].patient_identifier
           /\ ~HasMetadata(last.results, run.table.rows[r].patient_identifier) =>
                  /\ fs[XmlReport].rows[r].annotator = <<>>
                  /\ fs[XmlReport].rows[r].creatorId = <<>>

\* the report of update_xml_createtime is the ledger's rows in order, with
\* the createTime columns blank where no file resolves to the identifier
CtMergeIsOuterJoin ==
    /\ last.exit = "return"
    /\ CtReport \in DOMAIN fs
    /\ Len(fs[CtReport].rows) = Len(run.table.rows)
    /\ \A r \in 1..Len(run.table.rows) :
           /\ fs[CtReport].rows[r].row = run.table.rows[r]
           /\ FilesOf(last.visited, run.table.rows[r].patient_identifier) = {} =>
                  fs[CtReport].rows[r].xml = BlankInfo

\* C12 as stated: merging the later stage's columns into the ledger is an
\* outer join on the identifier: for every ledger the stage loads, the one
\* batch_process_edf writes with all its columns included, and every batch of
\* annotation files, the merged report is written with one row per ledger
\* row, in order, and blank later-stage columns for rows without a match.
C12_MergeIsOuterJoin ==
    /\ (XmlRunOver /\ read_edf_csv(run.table).kind = "ok" /\ last.visited # <<>>) =>
           XmlMergeIsOuterJoin
    /\ (CtRunOver /\ read_batch_results_csv(run.table).kind = "ok" /\ last.visited # <<>>) =>
           CtMergeIsOuterJoin

\* the half of C12 about update_xml alone
C12_XmlHalf ==
    (XmlRunOver /\ read_edf_csv(run.table).kind = "ok" /\ last.visited # <<>>) =>
        XmlMergeIsOuterJoin

\* the half of C12 about update_xml_createtime, ledgers without other columns
C12_CtHalfPlainLedger ==
    (CtRunOver /\ read_batch_results_csv(run.table).kind = "ok" /\ last.visited # <<>>
         /\ ~run.table.extra) =>
        CtMergeIsOuterJoin

(***************************************************************************)
(* The three resolvers of the identifier, applied to one name.             *)
(***************************************************************************)
Sites == {<<"0", "0", "1">>, <<"S", "1">>}

Ids == {<<"A", "B", "1", "2">>, <<"a", "b", "1", "2">>, <<" ", "A", "B", "1", "2">>}

Suffixes == {<<"4", "5">>, <<"4", "a">>, <<"x">>}

EdfTail == <<".", "e", "d", "f">>

XmlTail == <<"-", "a", "n", "n", "o", "t", "a", "t", "i", "o", "n", "s", ".", "x", "m", "l">>

Tails == {<<>>, EdfTail, XmlTail, <<".", "t", "x", "t">>}

\* PRV-<site>-<id>-<suffix> and what follows it
RawName(site, id, suffix, tail) ==
    <<"P", "R", "V", "-">> \o site \o <<"-">> \o id \o <<"-">> \o suffix \o tail

InitResolve ==
    /\ stage = "resolve"
    /\ pc = "idle"
    /\ fs = NoFiles
    /\ dirs = {}
    /\ last = NoCall
    /\ ncalls = 0
    /\ \E site \in Sites, id \in Ids, suffix \in Suffixes, tail \in Tails :
           run = [kind |-> "name", site |-> site, id |-> id, suffix |-> suffix,
                  tail |-> tail, name |-> RawName(site, id, suffix, tail)]

Resolved(script, ret) ==
    /\ stage = "resolve"
    /\ ncalls < MaxCalls
    /\ last' = [op |-> "extract_patient_id_from_filename", script |-> script,
                filename |-> run.name, ret |-> ret]
    /\ pc' = "done"
    /\ ncalls' = ncalls + 1
    /\ UNCHANGED <<stage, fs, dirs, run>>

ResolveEdf == Resolved("modify_edf_dates", extract_patient_id_edf(run.name))

ResolveXml == Resolved("update_xml", extract_patient_id_xml(run.name))

ResolveCreatetime ==
    Resolved("update_xml_createtime", extract_patient_id_createtime(run.name))

NextResolve == ResolveEdf \/ ResolveXml \/ ResolveCreatetime

SpecResolve == InitResolve /\ [][NextResolve]_vars

(***************************************************************************)
(* Claims about the resolvers.                                             *)
(***************************************************************************)
ResolveCall == last.op = "extract_patient_id_from_filename"

IsId(ret, id) == ret.ok /\ ret.id = Strip(id)

\* the document-type suffix of the script's files
OwnTail(script) == IF script = "modify_edf_dates" THEN EdfTail ELSE XmlTail

AllOf(cls, text) == \A i \in 1..Len(text) : ClassHas(cls, text[i])

\* C13 as stated: every resolver returns the <id> group of a raw string
\* PRV-<site>-<id>-<suffix>, whether or not the document-type suffix follows
\* it; "PRV-001-AB12-45" resolves to "AB12".
C13_ResolvesWithOrWithoutSuffix ==
    (ResolveCall /\ run.tail \in {<<>>, OwnTail(last.script)}) =>
        IsId(last.ret, run.id)

\* C13, amended: the resolvers of modify_edf_dates and update_xml return the
\* <id> group, stripped, exactly when the string goes on with the own
\* document-type suffix (.edf, -annotations.xml); the resolver of
\* update_xml_createtime asks for no suffix, and returns the group exactly
\* when the site is digits, the id upper-case letters and digits, and the
\* suffix starts with a digit.  Otherwise a resolver returns None.
C13_ResolvesByScriptPattern ==
    ResolveCall =>
        IF last.script = "update_xml_createtime"
        THEN IF AllOf("digit", run.site) /\ AllOf("upnum", run.id)
                    /\ ClassHas("digit", run.suffix[1])
             THEN IsId(last.ret, run.id) ELSE ~last.ret.ok
        ELSE IF run.tail = OwnTail(last.script)
             THEN IsId(last.ret, run.id) ELSE ~last.ret.ok

\* update_xml was given "PRV-001-AB12-45" and returned None; it was given the
\* name with -annotations.xml and returned the group
C13_Witness ==
    /\ ResolveCall
    /\ last.script = "update_xml"
    /\ run.site = <<"0", "0", "1">> /\ run.suffix = <<"4", "5">>
    /\ \/ run.id = <<"A", "B", "1", "2">> /\ run.tail = <<>> /\ ~last.ret.ok
       \/ run.id = <<" ", "A", "B", "1", "2">> /\ run.tail = XmlTail /\ last.ret = [ok |-> TRUE, id |-> AB12]

(***************************************************************************)
(* read_csv_lookup on one offset table.                                    *)
(***************************************************************************)
MaxRows == 3

RowIdTexts == {AB12, <<" ", "A", "B", "1", "2", " ">>, ZZ99}

RowNumberTexts == {<<"1">>, <<"3", "0", "0">>, <<"3", "e", "2">>}

OffsetRows == {OffsetRow(id, number) : id \in RowIdTexts, number \in RowNumberTexts}

RowSeqs == UNION {[1..n -> OffsetRows] : n \in 0..MaxRows}

InitLoad ==
    /\ stage = "load"
    /\ pc = "idle"
    /\ fs = NoFiles
    /\ dirs = {}
    /\ last = NoCall
    /\ ncalls = 0
    /\ \E rows \in RowSeqs, exists \in BOOLEAN, columns \in BOOLEAN :
           /\ ~exists => (rows = <<>> /\ ~columns)
           /\ run = [kind |-> "run", table |-> Table(exists, columns, rows)]

\* process_directory loads the table
LoadOffsets ==
    /\ stage = "load"
    /\ ncalls < MaxCalls
    /\ last' = [op |-> "read_csv_lookup", ret |-> read_csv_lookup(run.table)]
    /\ pc' = "done"
    /\ ncalls' = ncalls + 1
    /\ UNCHANGED <<stage, fs, dirs, run>>

NextLoad == LoadOffsets

SpecLoad == InitLoad /\ [][NextLoad]_vars

(***************************************************************************)
(* Claims about the offset table.                                          *)
(***************************************************************************)
OffsetsLoaded == last.op = "read_csv_lookup" /\ last.ret.kind = "ok"

\* C14: for any sequence of rows that loads, the mapping gives each
\* identifier the offset of its last row, its keys are exactly the stripped
\* identifiers of the rows, and a repeated identifier raises no error: the
\* load fails only for a missing file, a missing column or a number that is
\* not an integer.
C14_LastOccurrenceWins ==
    /\ OffsetsLoaded =>
           /\ DOMAIN last.ret.lookup = RowIds(run.table.rows)
           /\ \A id \in RowIds(run.table.rows) :
                  last.ret.lookup[id] =
                      ParseInt(run.table.rows[LastRowOf(run.table.rows, id)].random_number).v
    /\ (last.op = "read_csv_lookup" /\ run.table.exists /\ run.table.columns
            /\ \A i \in 1..Len(run.table.rows) : ParseInt(run.table.rows[i].random_number).ok)
           => last.ret.kind = "ok"

\* AB12 came with 1, then as " AB12 " with 300, and the mapping holds 300
C14_Witness ==
    /\ OffsetsLoaded
    /\ Len(run.table.rows) >= 2
    /\ run.table.rows[1] = OffsetRow(AB12, <<"1">>)
    /\ run.table.rows[2] = OffsetRow(<<" ", "A", "B", "1", "2", " ">>, <<"3", "0", "0">>)
    /\ RowIds(run.table.rows) = {AB12}
    /\ last.ret.lookup[AB12] = 300

(***************************************************************************)
(* The three per-file operations, each called on its own.                  *)
(***************************************************************************)
InitPerFile == InitHeader \/ InitSidecar

NextPerFile == CallModifyEdfHeader \/ CallUpdateXmlCreatetimes \/ CallProcessXmlFile

SpecPerFile == InitPerFile /\ [][NextPerFile]_vars

\* the call returned something other than success
NotSuccess ==
    \/ HdrCall /\ last.ret.kind # "ok"
    \/ SideCall /\ last.ret.status # "success"
    \/ DeidCall /\ last.ret.none

\* the content the successful call built before its write
BuiltContent ==
    CASE HdrCall -> last.ret.content
      [] SideCall -> TextFile(last.ret.text)
      [] DeidCall -> TextFile(RemoveIdentifying(last.read))

\* C15: a per-file operation that returns anything but success (None,
\* skipped, failed) or raises has created and modified no file; after a
\* success the files differ from those before the call in the output file
\* alone, which holds the content built in memory, written once.
C15_WriteOnlyOnSuccess ==
    /\ NotSuccess => fs = last.pre
    /\ ((HdrCall \/ SideCall \/ DeidCall) /\ ~NotSuccess) =>
           fs = WriteFile(last.pre, last.output_file, BuiltContent)

\* update_xml_createtimes read a file, skipped it, and left no output file
C15_Witness ==
    /\ SideCall
    /\ last.ret.status = "skipped"
    /\ last.read # <<>>
    /\ last.output_dir = "out"
    /\ last.output_file \notin DOMAIN fs
(***************************************************************************)
(* Claims about the batch orchestrator.                                    *)
(***************************************************************************)
BatchRunOver == RunOver /\ last.script = "batch_process_edf"

\* the run reached its loop: the table file and the directory exist and
\* find_edf_files found a file
BatchLooped == BatchRunOver /\ run.table.exists /\ find_edf_files(last.pre, "in") # {}

\* C16: in batch_process_edf, a child process that is not done after 60
\* seconds gives its file a record with status timeout; the record is
\* appended and the loop goes on: every file found is visited once and the
\* results hold exactly one record per file, in the order of the visits.
C16_TimeoutRecordedAndLoopGoesOn ==
    BatchLooped =>
        /\ Len(last.visited) = Cardinality(find_edf_files(last.pre, "in"))
        /\ {last.visited[i] : i \in 1..Len(last.visited)} = find_edf_files(last.pre, "in")
        /\ Len(last.results) = Len(last.visited)
        /\ \A i \in 1..Len(last.visited) :
               /\ last.results[i].edf_file = last.visited[i].name
               /\ last.calls[i].child = "expires" =>
                      /\ last.results[i].status = "timeout"
                      /\ last.results[i].error_message = "Process timed out after 60 seconds"

\* the first of two children expired, the second ran to its end, and both
\* files have their record
C16_Witness ==
    /\ BatchLooped
    /\ Len(last.results) = 2
    /\ last.calls[1].child = "expires"
    /\ last.calls[2].child = "exits"
    /\ last.results[1].status = "timeout"
    /\ last.results[2].status = "failed"

(***************************************************************************)
(* Claims about the status of the records.                                 *)
(***************************************************************************)
Statuses == {"success", "skipped", "failed", "timeout"}

\* the records of batch_process_edf carry a status of the four
C17_BatchStatusOfTheFour ==
    BatchRunOver => \A i \in 1..Len(last.results) : last.results[i].status \in Statuses

\* update_xml_createtimes skips a file whose name gives no identifier
C17_UnresolvedIsSkipped ==
    CtRunOver =>
        \A i \in 1..Len(last.results) :
            ~extract_patient_id_createtime(last.visited[i].name).ok =>
                last.results[i].status = "skipped"

\* C17 as stated: every per-file record of run_modify_edf_script and of
\* update_xml_createtimes has a status among success, skipped, failed and
\* timeout, and a sidecar whose name gives no identifier has status skipped.
C17_StatusOfTheFourAndUnresolvedSkipped ==
    /\ C17_BatchStatusOfTheFour
    /\ CtRunOver => \A i \in 1..Len(last.results) : last.results[i].status \in Statuses
    /\ C17_UnresolvedIsSkipped

(***************************************************************************)
(* Claims about what de-identification leaves.                             *)
(***************************************************************************)
\* the text gives a value to an attribute of this name
HoldsAttribute(text, name) == Contains(text, name \o <<"=">>)

\* C18 as stated: after process_xml_file succeeds on a document the parse
\* accepts, the output holds no createTime, annotator or creatorId attribute
\* and no channels element.
C18_NoIdentifyingLeft ==
    DeidWritten =>
        /\ \A name \in RemovedAttributes : ~HoldsAttribute(fs[last.output_file].text, name)
        /\ ~Contains(fs[last.output_file].text, <<"<", "c", "h", "a", "n", "n", "e", "l", "s">>)

(***************************************************************************)
(* Claims about the classification of a de-identified document.            *)
(***************************************************************************)
DeidTokens == last.pre[last.file].tokens

\* the annotation elements of the document as it was before the call: all
\* of them, and those that are children of the root
AnnotationsAnywhere ==
    {k \in 1..Len(DeidTokens) :
        DeidTokens[k].t = "open" /\ DeidTokens[k].tag = AnnotationTag}

AnnotationChildren == {k \in AnnotationsAnywhere : Depth(DeidTokens, k) = 1}

\* the value of the attribute on the first of these elements that has it
FirstValue(elements, name) ==
    LET Having(with) ==
            IF with = {} THEN <<>> ELSE GetAttrib(DeidTokens[SetMin(with)], name)
    IN  Having({k \in elements : HasAttrib(DeidTokens[k], name)})

LayerValues(elements) ==
    {GetAttrib(DeidTokens[k], LayerName) :
        k \in {j \in elements : HasAttrib(DeidTokens[j], LayerName)}}

\* the record gives the first annotator and creatorId and counts the layers
\* of these elements
ClassifiedOver(elements) ==
    /\ last.ret.annotator = FirstValue(elements, AnnotatorName)
    /\ last.ret.creatorId = FirstValue(elements, CreatorIdName)
    /\ last.ret.more_than_one_layer = "yes" <=> Cardinality(LayerValues(elements)) > 1
    /\ last.ret.more_than_one_layer \in {"yes", "no"}

VisitedInOrder == last.visited = Sorted({last.visited[i] : i \in 1..Len(last.visited)})

\* C20 as stated: in every stage the files are processed one at a time in
\* the lexicographic order of their paths, so the records come in the same
\* order in every run over the same directory.
C20_LexicographicOrder == RunOver => VisitedInOrder

\* the half of C20 about the two scripts that sort what glob returns
C20_SortingScripts ==
    (RunOver /\ last.script \in {"modify_edf_dates", "update_xml"}) => VisitedInOrder

(***************************************************************************)
(* Claims about the offset the ledger's dates give back.                   *)
(***************************************************************************)
\* the days calculate_date_offset reads off the record the call returned
HdrRecomputed == calculate_date_offset(last.ret.original_date, last.ret.new_date)

\* C21 as stated: for every successful header shift with offset d, the
\* record's ISO original_date and new_date give calculate_date_offset = d.
C21_LedgerGivesOffsetBack == HdrOk => HdrRecomputed = last.random_days

\* what holds of C21: the offset comes back when the shifted date lies in
\* year 1000 or later
C21_OffsetBackFromYear1000 ==
    (HdrOk /\ OrdOf(HdrOriginal) + last.random_days >= Ymd2Ord(1000, 1, 1)) =>
        HdrRecomputed = last.random_days

(***************************************************************************)
(* Claims about the first createTime of a shifted sidecar.                 *)
(***************************************************************************)
SideSuccess == SideCall /\ last.ret.status = "success"

\* the first element with a createTime attribute, and that attribute in it
FirstStampedToken ==
    SetMin({i \in 1..Len(SideTokens) :
               SideTokens[i].t = "open" /\ HasAttrib(SideTokens[i], CreateTimeName)})

FirstStampAttr ==
    SetMin({j \in 1..Len(SideTokens[FirstStampedToken].attrs) :
               SideTokens[FirstStampedToken].attrs[j].name = CreateTimeName})

\* the date of the first createTime in the file the call wrote
WrittenFirstDate ==
    SubSeq(fs[last.output_file].text,
           ValueStart(SideTokens, FirstStampedToken, FirstStampAttr),
           ValueStart(SideTokens, FirstStampedToken, FirstStampAttr) + 9)

\* the first createTime is written as the pattern of the substitution wants
\* it: in double quotes, with date, time and Z
FirstStampMatchesPattern ==
    /\ SideTokens[FirstStampedToken].attrs[FirstStampAttr].q = <<Quote>>
    /\ SideTokens[FirstStampedToken].attrs[FirstStampAttr].eq = <<"=">>
    /\ Len(SideTokens[FirstStampedToken].attrs[FirstStampAttr].val) = 20

\* C22 as stated: whenever update_xml_createtimes returns success, the date
\* of the first createTime in the written sidecar is the ledger's new EDF
\* start date.
C22_FirstDateIsNewStartDate ==
    SideSuccess => WrittenFirstDate = SideRow.new_edf_startdate

\* what holds of C22: the dates agree when the first createTime is written
\* as the pattern wants it
C22_FirstDateWhenPatternMatches ==
    (SideSuccess /\ FirstStampMatchesPattern) =>
        WrittenFirstDate = SideRow.new_edf_startdate

(***************************************************************************)
(* Claims about the createTime columns of the merged report.               *)
(***************************************************************************)
\* the row shows a new createTime
ReportedShift(row) ==
    row.xml.new_xml_createdate # <<>> \/ row.xml.new_xml_createtime # <<>>

\* where the value of the first createTime attribute starts in the text
FirstStampStart(tokens) ==
    ValueStart(tokens,
               SetMin({i \in 1..Len(tokens) :
                          tokens[i].t = "open" /\ HasAttrib(tokens[i], CreateTimeName)}),
               SetMin({j \in 1..Len(tokens[SetMin({i \in 1..Len(tokens) :
                          tokens[i].t = "open" /\ HasAttrib(tokens[i], CreateTimeName)})].attrs) :
                          tokens[SetMin({i \in 1..Len(tokens) :
                              tokens[i].t = "open" /\ HasAttrib(tokens[i], CreateTimeName)})].attrs[j].name
                              = CreateTimeName}))

\* the first createTime of the file the run wrote for this input file
WrittenStamp(file) ==
    SubSeq(fs[OutputPath(file, "modified_xml")].text,
           FirstStampStart(last.pre[file].tokens),
           FirstStampStart(last.pre[file].tokens) + 19)

\* file i of the run was shifted, and the row shows what was written for it
ShiftedAsReported(row, i) ==
    /\ last.results[i].status = "success"
    /\ row.xml.new_xml_createdate = SubSeq(WrittenStamp(last.visited[i]), 1, 10)
    /\ row.xml.new_xml_createtime = SubSeq(WrittenStamp(last.visited[i]), 12, 19)

\* C23 as stated: in a run of update_xml_createtime the merged report shows
\* a new createTime for an identifier only if update_xml_createtimes returned
\* success for a sidecar of that identifier, and the value shown is the first
\* createTime written to the output file; a skipped sidecar is never shown
\* as shifted.
C23_ReportedOnlyIfShifted ==
    (CtRunOver /\ CtReport \in DOMAIN fs) =>
        \A r \in 1..Len(fs[CtReport].rows) :
            ReportedShift(fs[CtReport].rows[r]) =>
                \E i \in FilesOf(last.visited, fs[CtReport].rows[r].row.patient_identifier) :
                    ShiftedAsReported(fs[CtReport].rows[r], i)

====
